---- MODULE Spec2Model ----
(***************************************************************************)
(* Model of the git-repo module (semantic version resolution and tagging): *)
(* parseVersion, determineBumpType, GetNextVersion and TagAndPush; and of   *)
(* the cached secrets client of the infisical module: GetClient.           *)
(*                                                                         *)
(* Strings are sequences of one-character strings.  A Go int (64 bit) is a *)
(* record [neg, mag]: a sign and the magnitude as the sequence of its      *)
(* decimal digits without leading zeros (zero is <<0>>), so that the       *)
(* values strconv.Atoi and the ++ operator produce at the edge of the      *)
(* int range are the ones the program produces.  An error is the string    *)
(* its message begins with, "nil" for no error; a result carries in text   *)
(* the tag its error message names.                                        *)
(***************************************************************************)
EXTENDS Integers, Sequences, FiniteSets, TLC

VARIABLES
    pc,          \* position of the call in progress
    entry,       \* which exported function the caller invoked
    tagListing,  \* what `git tag -l --sort=-version:refname` prints in this repository
    commitMsg,   \* subject line of HEAD (`git log HEAD --pretty=format:%s -1`)
    forceBump,   \* parameter forceBump
    version,     \* TagAndPush: parameter / local variable version
    message,     \* TagAndPush: parameter / local variable message
    fetchErr,    \* GetNextVersion: err of the fetch/list pipeline
    latestTag,   \* GetNextVersion: local variable latestTag
    cur,         \* GetNextVersion: (major, minor, patch) after parseVersion
    bumpType,    \* GetNextVersion: local variable bumpType
    gnv,         \* what GetNextVersion returned: [version, err]
    ret,         \* what the entry function returned to the caller: [version, err]
    execLog,     \* the git commands executed so far, in order
    input,       \* argument of parseVersion / determineBumpType called on its own
    output,      \* its result
    clientInstance, \* package client: the cached client, NoClient for nil
    readers,     \* clientMutex: the goroutines holding the read lock
    writer,      \* clientMutex: the goroutine holding the write lock, 0 for none
    cpc,         \* GetClient: position of each goroutine
    ccfg,        \* GetClient: parameter cfg of each goroutine's call
    clocal,      \* GetClient: local variable client of each goroutine
    nextId,      \* identity of the next client NewInfisicalClient constructs
    authed,      \* the clients whose UniversalAuthLogin succeeded
    assigns,     \* how many times clientInstance was assigned
    calls,       \* how many calls of GetClient were made
    returns      \* what the calls of GetClient returned: [val, err]

clientVars == <<clientInstance, readers, writer, cpc, ccfg, clocal, nextId, authed,
                assigns, calls, returns>>

gitVars == <<pc, entry, tagListing, commitMsg, forceBump, version, message, fetchErr,
             latestTag, cur, bumpType, gnv, ret, execLog, input, output>>

vars == <<gitVars, clientVars>>

-----------------------------------------------------------------------------
(* The client package before any call of GetClient *)

NumProcs == 2

MaxCalls == 3

Procs == 1..NumProcs

\* the nil client
NoClient == [id |-> 0, cfg |-> ""]

\* package-level var block: clientInstance is nil, clientMutex is unlocked
ClientInit ==
    /\ clientInstance = NoClient
    /\ readers = {}
    /\ writer = 0
    /\ cpc = [p \in Procs |-> "idle"]
    /\ ccfg = [p \in Procs |-> ""]
    /\ clocal = [p \in Procs |-> NoClient]
    /\ nextId = 1
    /\ authed = {}
    /\ assigns = 0
    /\ calls = 0
    /\ returns = {}

-----------------------------------------------------------------------------
(* Characters and strings *)

DigitChars == {"0", "1", "2", "3", "4", "5", "6", "7", "8", "9"}

\* A character beyond U+00FF is written by its code point, as in "U+2000"; a
\* string of the program is a sequence of characters.

\* unicode.IsSpace, the white space of strings.TrimSpace: space, \n, \t, \r,
\* \f, \v (U+000B), U+0085, U+00A0, U+1680, U+2000..U+200A, U+2028, U+2029,
\* U+202F, U+205F, U+3000
WhiteSpace ==
    { " ", "\n", "\t", "\r", "\f", "", "", " ", "U+1680",
      "U+2000", "U+2001", "U+2002", "U+2003", "U+2004", "U+2005", "U+2006", "U+2007",
      "U+2008", "U+2009", "U+200A", "U+2028", "U+2029", "U+202F", "U+205F", "U+3000" }

\* the simple lower-case mappings of the Unicode tables that unicode.ToLower
\* reads (package unicode, CaseRanges): each character that has one, paired
\* with its lower case
LowerPairs ==
    {
      <<"A","a">>, <<"B","b">>, <<"C","c">>, <<"D","d">>,
      <<"E","e">>, <<"F","f">>, <<"G","g">>, <<"H","h">>,
      <<"I","i">>, <<"J","j">>, <<"K","k">>, <<"L","l">>,
      <<"M","m">>, <<"N","n">>, <<"O","o">>, <<"P","p">>,
      <<"Q","q">>, <<"R","r">>, <<"S","s">>, <<"T","t">>,
      <<"U","u">>, <<"V","v">>, <<"W","w">>, <<"X","x">>,
      <<"Y","y">>, <<"Z","z">>, <<"À","à">>, <<"Á","á">>,
      <<"Â","â">>, <<"Ã","ã">>, <<"Ä","ä">>, <<"Å","å">>,
      <<"Æ","æ">>, <<"Ç","ç">>, <<"È","è">>, <<"É","é">>,
      <<"Ê","ê">>, <<"Ë","ë">>, <<"Ì","ì">>, <<"Í","í">>,
      <<"Î","î">>, <<"Ï","ï">>, <<"Ð","ð">>, <<"Ñ","ñ">>,
      <<"Ò","ò">>, <<"Ó","ó">>, <<"Ô","ô">>, <<"Õ","õ">>,
      <<"Ö","ö">>, <<"Ø","ø">>, <<"Ù","ù">>, <<"Ú","ú">>,
      <<"Û","û">>, <<"Ü","ü">>, <<"Ý","ý">>, <<"Þ","þ">>,
      <<"U+0100","U+0101">>, <<"U+0102","U+0103">>, <<"U+0104","U+0105">>, <<"U+0106","U+0107">>,
      <<"U+0108","U+0109">>, <<"U+010A","U+010B">>, <<"U+010C","U+010D">>, <<"U+010E","U+010F">>,
      <<"U+0110","U+0111">>, <<"U+0112","U+0113">>, <<"U+0114","U+0115">>, <<"U+0116","U+0117">>,
      <<"U+0118","U+0119">>, <<"U+011A","U+011B">>, <<"U+011C","U+011D">>, <<"U+011E","U+011F">>,
      <<"U+0120","U+0121">>, <<"U+0122","U+0123">>, <<"U+0124","U+0125">>, <<"U+0126","U+0127">>,
      <<"U+0128","U+0129">>, <<"U+012A","U+012B">>, <<"U+012C","U+012D">>, <<"U+012E","U+012F">>,
      <<"U+0130","i">>, <<"U+0132","U+0133">>, <<"U+0134","U+0135">>, <<"U+0136","U+0137">>,
      <<"U+0139","U+013A">>, <<"U+013B","U+013C">>, <<"U+013D","U+013E">>, <<"U+013F","U+0140">>,
      <<"U+0141","U+0142">>, <<"U+0143","U+0144">>, <<"U+0145","U+0146">>, <<"U+0147","U+0148">>,
      <<"U+014A","U+014B">>, <<"U+014C","U+014D">>, <<"U+014E","U+014F">>, <<"U+0150","U+0151">>,
      <<"U+0152","U+0153">>, <<"U+0154","U+0155">>, <<"U+0156","U+0157">>, <<"U+0158","U+0159">>,
      <<"U+015A","U+015B">>, <<"U+015C","U+015D">>, <<"U+015E","U+015F">>, <<"U+0160","U+0161">>,
      <<"U+0162","U+0163">>, <<"U+0164","U+0165">>, <<"U+0166","U+0167">>, <<"U+0168","U+0169">>,
      <<"U+016A","U+016B">>, <<"U+016C","U+016D">>, <<"U+016E","U+016F">>, <<"U+0170","U+0171">>,
      <<"U+0172","U+0173">>, <<"U+0174","U+0175">>, <<"U+0176","U+0177">>, <<"U+0178","ÿ">>,
      <<"U+0179","U+017A">>, <<"U+017B","U+017C">>, <<"U+017D","U+017E">>, <<"U+0181","U+0253">>,
      <<"U+0182","U+0183">>, <<"U+0184","U+0185">>, <<"U+0186","U+0254">>, <<"U+0187","U+0188">>,
      <<"U+0189","U+0256">>, <<"U+018A","U+0257">>, <<"U+018B","U+018C">>, <<"U+018E","U+01DD">>,
      <<"U+018F","U+0259">>, <<"U+0190","U+025B">>, <<"U+0191","U+0192">>, <<"U+0193","U+0260">>,
      <<"U+0194","U+0263">>, <<"U+0196","U+0269">>, <<"U+0197","U+0268">>, <<"U+0198","U+0199">>,
      <<"U+019C","U+026F">>, <<"U+019D","U+0272">>, <<"U+019F","U+0275">>, <<"U+01A0","U+01A1">>,
      <<"U+01A2","U+01A3">>, <<"U+01A4","U+01A5">>, <<"U+01A6","U+0280">>, <<"U+01A7","U+01A8">>,
      <<"U+01A9","U+0283">>, <<"U+01AC","U+01AD">>, <<"U+01AE","U+0288">>, <<"U+01AF","U+01B0">>,
      <<"U+01B1","U+028A">>, <<"U+01B2","U+028B">>, <<"U+01B3","U+01B4">>, <<"U+01B5","U+01B6">>,
      <<"U+01B7","U+0292">>, <<"U+01B8","U+01B9">>, <<"U+01BC","U+01BD">>, <<"U+01C4","U+01C6">>,
      <<"U+01C5","U+01C6">>, <<"U+01C7","U+01C9">>, <<"U+01C8","U+01C9">>, <<"U+01CA","U+01CC">>,
      <<"U+01CB","U+01CC">>, <<"U+01CD","U+01CE">>, <<"U+01CF","U+01D0">>, <<"U+01D1","U+01D2">>,
      <<"U+01D3","U+01D4">>, <<"U+01D5","U+01D6">>, <<"U+01D7","U+01D8">>, <<"U+01D9","U+01DA">>,
      <<"U+01DB","U+01DC">>, <<"U+01DE","U+01DF">>, <<"U+01E0","U+01E1">>, <<"U+01E2","U+01E3">>,
      <<"U+01E4","U+01E5">>, <<"U+01E6","U+01E7">>, <<"U+01E8","U+01E9">>, <<"U+01EA","U+01EB">>,
      <<"U+01EC","U+01ED">>, <<"U+01EE","U+01EF">>, <<"U+01F1","U+01F3">>, <<"U+01F2","U+01F3">>,
      <<"U+01F4","U+01F5">>, <<"U+01F6","U+0195">>, <<"U+01F7","U+01BF">>, <<"U+01F8","U+01F9">>,
      <<"U+01FA","U+01FB">>, <<"U+01FC","U+01FD">>, <<"U+01FE","U+01FF">>, <<"U+0200","U+0201">>,
      <<"U+0202","U+0203">>, <<"U+0204","U+0205">>, <<"U+0206","U+0207">>, <<"U+0208","U+0209">>,
      <<"U+020A","U+020B">>, <<"U+020C","U+020D">>, <<"U+020E","U+020F">>, <<"U+0210","U+0211">>,
      <<"U+0212","U+0213">>, <<"U+0214","U+0215">>, <<"U+0216","U+0217">>, <<"U+0218","U+0219">>,
      <<"U+021A","U+021B">>, <<"U+021C","U+021D">>, <<"U+021E","U+021F">>, <<"U+0220","U+019E">>,
      <<"U+0222","U+0223">>, <<"U+0224","U+0225">>, <<"U+0226","U+0227">>, <<"U+0228","U+0229">>,
      <<"U+022A","U+022B">>, <<"U+022C","U+022D">>, <<"U+022E","U+022F">>, <<"U+0230","U+0231">>,
      <<"U+0232","U+0233">>, <<"U+023A","U+2C65">>, <<"U+023B","U+023C">>, <<"U+023D","U+019A">>,
      <<"U+023E","U+2C66">>, <<"U+0241","U+0242">>, <<"U+0243","U+0180">>, <<"U+0244","U+0289">>,
      <<"U+0245","U+028C">>, <<"U+0246","U+0247">>, <<"U+0248","U+0249">>, <<"U+024A","U+024B">>,
      <<"U+024C","U+024D">>, <<"U+024E","U+024F">>, <<"U+0370","U+0371">>, <<"U+0372","U+0373">>,
      <<"U+0376","U+0377">>, <<"U+037F","U+03F3">>, <<"U+0386","U+03AC">>, <<"U+0388","U+03AD">>,
      <<"U+0389","U+03AE">>, <<"U+038A","U+03AF">>, <<"U+038C","U+03CC">>, <<"U+038E","U+03CD">>,
      <<"U+038F","U+03CE">>, <<"U+0391","U+03B1">>, <<"U+0392","U+03B2">>, <<"U+0393","U+03B3">>,
      <<"U+0394","U+03B4">>, <<"U+0395","U+03B5">>, <<"U+0396","U+03B6">>, <<"U+0397","U+03B7">>,
      <<"U+0398","U+03B8">>, <<"U+0399","U+03B9">>, <<"U+039A","U+03BA">>, <<"U+039B","U+03BB">>,
      <<"U+039C","U+03BC">>, <<"U+039D","U+03BD">>, <<"U+039E","U+03BE">>, <<"U+039F","U+03BF">>,
      <<"U+03A0","U+03C0">>, <<"U+03A1","U+03C1">>, <<"U+03A3","U+03C3">>, <<"U+03A4","U+03C4">>,
      <<"U+03A5","U+03C5">>, <<"U+03A6","U+03C6">>, <<"U+03A7","U+03C7">>, <<"U+03A8","U+03C8">>,
      <<"U+03A9","U+03C9">>, <<"U+03AA","U+03CA">>, <<"U+03AB","U+03CB">>, <<"U+03CF","U+03D7">>,
      <<"U+03D8","U+03D9">>, <<"U+03DA","U+03DB">>, <<"U+03DC","U+03DD">>, <<"U+03DE","U+03DF">>,
      <<"U+03E0","U+03E1">>, <<"U+03E2","U+03E3">>, <<"U+03E4","U+03E5">>, <<"U+03E6","U+03E7">>,
      <<"U+03E8","U+03E9">>, <<"U+03EA","U+03EB">>, <<"U+03EC","U+03ED">>, <<"U+03EE","U+03EF">>,
      <<"U+03F4","U+03B8">>, <<"U+03F7","U+03F8">>, <<"U+03F9","U+03F2">>, <<"U+03FA","U+03FB">>,
      <<"U+03FD","U+037B">>, <<"U+03FE","U+037C">>, <<"U+03FF","U+037D">>, <<"U+0400","U+0450">>,
      <<"U+0401","U+0451">>, <<"U+0402","U+0452">>, <<"U+0403","U+0453">>, <<"U+0404","U+0454">>,
      <<"U+0405","U+0455">>, <<"U+0406","U+0456">>, <<"U+0407","U+0457">>, <<"U+0408","U+0458">>,
      <<"U+0409","U+0459">>, <<"U+040A","U+045A">>, <<"U+040B","U+045B">>, <<"U+040C","U+045C">>,
      <<"U+040D","U+045D">>, <<"U+040E","U+045E">>, <<"U+040F","U+045F">>, <<"U+0410","U+0430">>,
      <<"U+0411","U+0431">>, <<"U+0412","U+0432">>, <<"U+0413","U+0433">>, <<"U+0414","U+0434">>,
      <<"U+0415","U+0435">>, <<"U+0416","U+0436">>, <<"U+0417","U+0437">>, <<"U+0418","U+0438">>,
      <<"U+0419","U+0439">>, <<"U+041A","U+043A">>, <<"U+041B","U+043B">>, <<"U+041C","U+043C">>,
      <<"U+041D","U+043D">>, <<"U+041E","U+043E">>, <<"U+041F","U+043F">>, <<"U+0420","U+0440">>,
      <<"U+0421","U+0441">>, <<"U+0422","U+0442">>, <<"U+0423","U+0443">>, <<"U+0424","U+0444">>,
      <<"U+0425","U+0445">>, <<"U+0426","U+0446">>, <<"U+0427","U+0447">>, <<"U+0428","U+0448">>,
      <<"U+0429","U+0449">>, <<"U+042A","U+044A">>, <<"U+042B","U+044B">>, <<"U+042C","U+044C">>,
      <<"U+042D","U+044D">>, <<"U+042E","U+044E">>, <<"U+042F","U+044F">>, <<"U+0460","U+0461">>,
      <<"U+0462","U+0463">>, <<"U+0464","U+0465">>, <<"U+0466","U+0467">>, <<"U+0468","U+0469">>,
      <<"U+046A","U+046B">>, <<"U+046C","U+046D">>, <<"U+046E","U+046F">>, <<"U+0470","U+0471">>,
      <<"U+0472","U+0473">>, <<"U+0474","U+0475">>, <<"U+0476","U+0477">>, <<"U+0478","U+0479">>,
      <<"U+047A","U+047B">>, <<"U+047C","U+047D">>, <<"U+047E","U+047F">>, <<"U+0480","U+0481">>,
      <<"U+048A","U+048B">>, <<"U+048C","U+048D">>, <<"U+048E","U+048F">>, <<"U+0490","U+0491">>,
      <<"U+0492","U+0493">>, <<"U+0494","U+0495">>, <<"U+0496","U+0497">>, <<"U+0498","U+0499">>,
      <<"U+049A","U+049B">>, <<"U+049C","U+049D">>, <<"U+049E","U+049F">>, <<"U+04A0","U+04A1">>,
      <<"U+04A2","U+04A3">>, <<"U+04A4","U+04A5">>, <<"U+04A6","U+04A7">>, <<"U+04A8","U+04A9">>,
      <<"U+04AA","U+04AB">>, <<"U+04AC","U+04AD">>, <<"U+04AE","U+04AF">>, <<"U+04B0","U+04B1">>,
      <<"U+04B2","U+04B3">>, <<"U+04B4","U+04B5">>, <<"U+04B6","U+04B7">>, <<"U+04B8","U+04B9">>,
      <<"U+04BA","U+04BB">>, <<"U+04BC","U+04BD">>, <<"U+04BE","U+04BF">>, <<"U+04C0","U+04CF">>,
      <<"U+04C1","U+04C2">>, <<"U+04C3","U+04C4">>, <<"U+04C5","U+04C6">>, <<"U+04C7","U+04C8">>,
      <<"U+04C9","U+04CA">>, <<"U+04CB","U+04CC">>, <<"U+04CD","U+04CE">>, <<"U+04D0","U+04D1">>,
      <<"U+04D2","U+04D3">>, <<"U+04D4","U+04D5">>, <<"U+04D6","U+04D7">>, <<"U+04D8","U+04D9">>,
      <<"U+04DA","U+04DB">>, <<"U+04DC","U+04DD">>, <<"U+04DE","U+04DF">>, <<"U+04E0","U+04E1">>,
      <<"U+04E2","U+04E3">>, <<"U+04E4","U+04E5">>, <<"U+04E6","U+04E7">>, <<"U+04E8","U+04E9">>,
      <<"U+04EA","U+04EB">>, <<"U+04EC","U+04ED">>, <<"U+04EE","U+04EF">>, <<"U+04F0","U+04F1">>,
      <<"U+04F2","U+04F3">>, <<"U+04F4","U+04F5">>, <<"U+04F6","U+04F7">>, <<"U+04F8","U+04F9">>,
      <<"U+04FA","U+04FB">>, <<"U+04FC","U+04FD">>, <<"U+04FE","U+04FF">>, <<"U+0500","U+0501">>,
      <<"U+0502","U+0503">>, <<"U+0504","U+0505">>, <<"U+0506","U+0507">>, <<"U+0508","U+0509">>,
      <<"U+050A","U+050B">>, <<"U+050C","U+050D">>, <<"U+050E","U+050F">>, <<"U+0510","U+0511">>,
      <<"U+0512","U+0513">>, <<"U+0514","U+0515">>, <<"U+0516","U+0517">>, <<"U+0518","U+0519">>,
      <<"U+051A","U+051B">>, <<"U+051C","U+051D">>, <<"U+051E","U+051F">>, <<"U+0520","U+0521">>,
      <<"U+0522","U+0523">>, <<"U+0524","U+0525">>, <<"U+0526","U+0527">>, <<"U+0528","U+0529">>,
      <<"U+052A","U+052B">>, <<"U+052C","U+052D">>, <<"U+052E","U+052F">>, <<"U+0531","U+0561">>,
      <<"U+0532","U+0562">>, <<"U+0533","U+0563">>, <<"U+0534","U+0564">>, <<"U+0535","U+0565">>,
      <<"U+0536","U+0566">>, <<"U+0537","U+0567">>, <<"U+0538","U+0568">>, <<"U+0539","U+0569">>,
      <<"U+053A","U+056A">>, <<"U+053B","U+056B">>, <<"U+053C","U+056C">>, <<"U+053D","U+056D">>,
      <<"U+053E","U+056E">>, <<"U+053F","U+056F">>, <<"U+0540","U+0570">>, <<"U+0541","U+0571">>,
      <<"U+0542","U+0572">>, <<"U+0543","U+0573">>, <<"U+0544","U+0574">>, <<"U+0545","U+0575">>,
      <<"U+0546","U+0576">>, <<"U+0547","U+0577">>, <<"U+0548","U+0578">>, <<"U+0549","U+0579">>,
      <<"U+054A","U+057A">>, <<"U+054B","U+057B">>, <<"U+054C","U+057C">>, <<"U+054D","U+057D">>,
      <<"U+054E","U+057E">>, <<"U+054F","U+057F">>, <<"U+0550","U+0580">>, <<"U+0551","U+0581">>,
      <<"U+0552","U+0582">>, <<"U+0553","U+0583">>, <<"U+0554","U+0584">>, <<"U+0555","U+0585">>,
      <<"U+0556","U+0586">>, <<"U+10A0","U+2D00">>, <<"U+10A1","U+2D01">>, <<"U+10A2","U+2D02">>,
      <<"U+10A3","U+2D03">>, <<"U+10A4","U+2D04">>, <<"U+10A5","U+2D05">>, <<"U+10A6","U+2D06">>,
      <<"U+10A7","U+2D07">>, <<"U+10A8","U+2D08">>, <<"U+10A9","U+2D09">>, <<"U+10AA","U+2D0A">>,
      <<"U+10AB","U+2D0B">>, <<"U+10AC","U+2D0C">>, <<"U+10AD","U+2D0D">>, <<"U+10AE","U+2D0E">>,
      <<"U+10AF","U+2D0F">>, <<"U+10B0","U+2D10">>, <<"U+10B1","U+2D11">>, <<"U+10B2","U+2D12">>,
      <<"U+10B3","U+2D13">>, <<"U+10B4","U+2D14">>, <<"U+10B5","U+2D15">>, <<"U+10B6","U+2D16">>,
      <<"U+10B7","U+2D17">>, <<"U+10B8","U+2D18">>, <<"U+10B9","U+2D19">>, <<"U+10BA","U+2D1A">>,
      <<"U+10BB","U+2D1B">>, <<"U+10BC","U+2D1C">>, <<"U+10BD","U+2D1D">>, <<"U+10BE","U+2D1E">>,
      <<"U+10BF","U+2D1F">>, <<"U+10C0","U+2D20">>, <<"U+10C1","U+2D21">>, <<"U+10C2","U+2D22">>,
      <<"U+10C3","U+2D23">>, <<"U+10C4","U+2D24">>, <<"U+10C5","U+2D25">>, <<"U+10C7","U+2D27">>,
      <<"U+10CD","U+2D2D">>, <<"U+13A0","U+AB70">>, <<"U+13A1","U+AB71">>, <<"U+13A2","U+AB72">>,
      <<"U+13A3","U+AB73">>, <<"U+13A4","U+AB74">>, <<"U+13A5","U+AB75">>, <<"U+13A6","U+AB76">>,
      <<"U+13A7","U+AB77">>, <<"U+13A8","U+AB78">>, <<"U+13A9","U+AB79">>, <<"U+13AA","U+AB7A">>,
      <<"U+13AB","U+AB7B">>, <<"U+13AC","U+AB7C">>, <<"U+13AD","U+AB7D">>, <<"U+13AE","U+AB7E">>,
      <<"U+13AF","U+AB7F">>, <<"U+13B0","U+AB80">>, <<"U+13B1","U+AB81">>, <<"U+13B2","U+AB82">>,
      <<"U+13B3","U+AB83">>, <<"U+13B4","U+AB84">>, <<"U+13B5","U+AB85">>, <<"U+13B6","U+AB86">>,
      <<"U+13B7","U+AB87">>, <<"U+13B8","U+AB88">>, <<"U+13B9","U+AB89">>, <<"U+13BA","U+AB8A">>,
      <<"U+13BB","U+AB8B">>, <<"U+13BC","U+AB8C">>, <<"U+13BD","U+AB8D">>, <<"U+13BE","U+AB8E">>,
      <<"U+13BF","U+AB8F">>, <<"U+13C0","U+AB90">>, <<"U+13C1","U+AB91">>, <<"U+13C2","U+AB92">>,
      <<"U+13C3","U+AB93">>, <<"U+13C4","U+AB94">>, <<"U+13C5","U+AB95">>, <<"U+13C6","U+AB96">>,
      <<"U+13C7","U+AB97">>, <<"U+13C8","U+AB98">>, <<"U+13C9","U+AB99">>, <<"U+13CA","U+AB9A">>,
      <<"U+13CB","U+AB9B">>, <<"U+13CC","U+AB9C">>, <<"U+13CD","U+AB9D">>, <<"U+13CE","U+AB9E">>,
      <<"U+13CF","U+AB9F">>, <<"U+13D0","U+ABA0">>, <<"U+13D1","U+ABA1">>, <<"U+13D2","U+ABA2">>,
      <<"U+13D3","U+ABA3">>, <<"U+13D4","U+ABA4">>, <<"U+13D5","U+ABA5">>, <<"U+13D6","U+ABA6">>,
      <<"U+13D7","U+ABA7">>, <<"U+13D8","U+ABA8">>, <<"U+13D9","U+ABA9">>, <<"U+13DA","U+ABAA">>,
      <<"U+13DB","U+ABAB">>, <<"U+13DC","U+ABAC">>, <<"U+13DD","U+ABAD">>, <<"U+13DE","U+ABAE">>,
      <<"U+13DF","U+ABAF">>, <<"U+13E0","U+ABB0">>, <<"U+13E1","U+ABB1">>, <<"U+13E2","U+ABB2">>,
      <<"U+13E3","U+ABB3">>, <<"U+13E4","U+ABB4">>, <<"U+13E5","U+ABB5">>, <<"U+13E6","U+ABB6">>,
      <<"U+13E7","U+ABB7">>, <<"U+13E8","U+ABB8">>, <<"U+13E9","U+ABB9">>, <<"U+13EA","U+ABBA">>,
      <<"U+13EB","U+ABBB">>, <<"U+13EC","U+ABBC">>, <<"U+13ED","U+ABBD">>, <<"U+13EE","U+ABBE">>,
      <<"U+13EF","U+ABBF">>, <<"U+13F0","U+13F8">>, <<"U+13F1","U+13F9">>, <<"U+13F2","U+13FA">>,
      <<"U+13F3","U+13FB">>, <<"U+13F4","U+13FC">>, <<"U+13F5","U+13FD">>, <<"U+1C90","U+10D0">>,
      <<"U+1C91","U+10D1">>, <<"U+1C92","U+10D2">>, <<"U+1C93","U+10D3">>, <<"U+1C94","U+10D4">>,
      <<"U+1C95","U+10D5">>, <<"U+1C96","U+10D6">>, <<"U+1C97","U+10D7">>, <<"U+1C98","U+10D8">>,
      <<"U+1C99","U+10D9">>, <<"U+1C9A","U+10DA">>, <<"U+1C9B","U+10DB">>, <<"U+1C9C","U+10DC">>,
      <<"U+1C9D","U+10DD">>, <<"U+1C9E","U+10DE">>, <<"U+1C9F","U+10DF">>, <<"U+1CA0","U+10E0">>,
      <<"U+1CA1","U+10E1">>, <<"U+1CA2","U+10E2">>, <<"U+1CA3","U+10E3">>, <<"U+1CA4","U+10E4">>,
      <<"U+1CA5","U+10E5">>, <<"U+1CA6","U+10E6">>, <<"U+1CA7","U+10E7">>, <<"U+1CA8","U+10E8">>,
      <<"U+1CA9","U+10E9">>, <<"U+1CAA","U+10EA">>, <<"U+1CAB","U+10EB">>, <<"U+1CAC","U+10EC">>,
      <<"U+1CAD","U+10ED">>, <<"U+1CAE","U+10EE">>, <<"U+1CAF","U+10EF">>, <<"U+1CB0","U+10F0">>,
      <<"U+1CB1","U+10F1">>, <<"U+1CB2","U+10F2">>, <<"U+1CB3","U+10F3">>, <<"U+1CB4","U+10F4">>,
      <<"U+1CB5","U+10F5">>, <<"U+1CB6","U+10F6">>, <<"U+1CB7","U+10F7">>, <<"U+1CB8","U+10F8">>,
      <<"U+1CB9","U+10F9">>, <<"U+1CBA","U+10FA">>, <<"U+1CBD","U+10FD">>, <<"U+1CBE","U+10FE">>,
      <<"U+1CBF","U+10FF">>, <<"U+1E00","U+1E01">>, <<"U+1E02","U+1E03">>, <<"U+1E04","U+1E05">>,
      <<"U+1E06","U+1E07">>, <<"U+1E08","U+1E09">>, <<"U+1E0A","U+1E0B">>, <<"U+1E0C","U+1E0D">>,
      <<"U+1E0E","U+1E0F">>, <<"U+1E10","U+1E11">>, <<"U+1E12","U+1E13">>, <<"U+1E14","U+1E15">>,
      <<"U+1E16","U+1E17">>, <<"U+1E18","U+1E19">>, <<"U+1E1A","U+1E1B">>, <<"U+1E1C","U+1E1D">>,
      <<"U+1E1E","U+1E1F">>, <<"U+1E20","U+1E21">>, <<"U+1E22","U+1E23">>, <<"U+1E24","U+1E25">>,
      <<"U+1E26","U+1E27">>, <<"U+1E28","U+1E29">>, <<"U+1E2A","U+1E2B">>, <<"U+1E2C","U+1E2D">>,
      <<"U+1E2E","U+1E2F">>, <<"U+1E30","U+1E31">>, <<"U+1E32","U+1E33">>, <<"U+1E34","U+1E35">>,
      <<"U+1E36","U+1E37">>, <<"U+1E38","U+1E39">>, <<"U+1E3A","U+1E3B">>, <<"U+1E3C","U+1E3D">>,
      <<"U+1E3E","U+1E3F">>, <<"U+1E40","U+1E41">>, <<"U+1E42","U+1E43">>, <<"U+1E44","U+1E45">>,
      <<"U+1E46","U+1E47">>, <<"U+1E48","U+1E49">>, <<"U+1E4A","U+1E4B">>, <<"U+1E4C","U+1E4D">>,
      <<"U+1E4E","U+1E4F">>, <<"U+1E50","U+1E51">>, <<"U+1E52","U+1E53">>, <<"U+1E54","U+1E55">>,
      <<"U+1E56","U+1E57">>, <<"U+1E58","U+1E59">>, <<"U+1E5A","U+1E5B">>, <<"U+1E5C","U+1E5D">>,
      <<"U+1E5E","U+1E5F">>, <<"U+1E60","U+1E61">>, <<"U+1E62","U+1E63">>, <<"U+1E64","U+1E65">>,
      <<"U+1E66","U+1E67">>, <<"U+1E68","U+1E69">>, <<"U+1E6A","U+1E6B">>, <<"U+1E6C","U+1E6D">>,
      <<"U+1E6E","U+1E6F">>, <<"U+1E70","U+1E71">>, <<"U+1E72","U+1E73">>, <<"U+1E74","U+1E75">>,
      <<"U+1E76","U+1E77">>, <<"U+1E78","U+1E79">>, <<"U+1E7A","U+1E7B">>, <<"U+1E7C","U+1E7D">>,
      <<"U+1E7E","U+1E7F">>, <<"U+1E80","U+1E81">>, <<"U+1E82","U+1E83">>, <<"U+1E84","U+1E85">>,
      <<"U+1E86","U+1E87">>, <<"U+1E88","U+1E89">>, <<"U+1E8A","U+1E8B">>, <<"U+1E8C","U+1E8D">>,
      <<"U+1E8E","U+1E8F">>, <<"U+1E90","U+1E91">>, <<"U+1E92","U+1E93">>, <<"U+1E94","U+1E95">>,
      <<"U+1E9E","ß">>, <<"U+1EA0","U+1EA1">>, <<"U+1EA2","U+1EA3">>, <<"U+1EA4","U+1EA5">>,
      <<"U+1EA6","U+1EA7">>, <<"U+1EA8","U+1EA9">>, <<"U+1EAA","U+1EAB">>, <<"U+1EAC","U+1EAD">>,
      <<"U+1EAE","U+1EAF">>, <<"U+1EB0","U+1EB1">>, <<"U+1EB2","U+1EB3">>, <<"U+1EB4","U+1EB5">>,
      <<"U+1EB6","U+1EB7">>, <<"U+1EB8","U+1EB9">>, <<"U+1EBA","U+1EBB">>, <<"U+1EBC","U+1EBD">>,
      <<"U+1EBE","U+1EBF">>, <<"U+1EC0","U+1EC1">>, <<"U+1EC2","U+1EC3">>, <<"U+1EC4","U+1EC5">>,
      <<"U+1EC6","U+1EC7">>, <<"U+1EC8","U+1EC9">>, <<"U+1ECA","U+1ECB">>, <<"U+1ECC","U+1ECD">>,
      <<"U+1ECE","U+1ECF">>, <<"U+1ED0","U+1ED1">>, <<"U+1ED2","U+1ED3">>, <<"U+1ED4","U+1ED5">>,
      <<"U+1ED6","U+1ED7">>, <<"U+1ED8","U+1ED9">>, <<"U+1EDA","U+1EDB">>, <<"U+1EDC","U+1EDD">>,
      <<"U+1EDE","U+1EDF">>, <<"U+1EE0","U+1EE1">>, <<"U+1EE2","U+1EE3">>, <<"U+1EE4","U+1EE5">>,
      <<"U+1EE6","U+1EE7">>, <<"U+1EE8","U+1EE9">>, <<"U+1EEA","U+1EEB">>, <<"U+1EEC","U+1EED">>,
      <<"U+1EEE","U+1EEF">>, <<"U+1EF0","U+1EF1">>, <<"U+1EF2","U+1EF3">>, <<"U+1EF4","U+1EF5">>,
      <<"U+1EF6","U+1EF7">>, <<"U+1EF8","U+1EF9">>, <<"U+1EFA","U+1EFB">>, <<"U+1EFC","U+1EFD">>,
      <<"U+1EFE","U+1EFF">>, <<"U+1F08","U+1F00">>, <<"U+1F09","U+1F01">>, <<"U+1F0A","U+1F02">>,
      <<"U+1F0B","U+1F03">>, <<"U+1F0C","U+1F04">>, <<"U+1F0D","U+1F05">>, <<"U+1F0E","U+1F06">>,
      <<"U+1F0F","U+1F07">>, <<"U+1F18","U+1F10">>, <<"U+1F19","U+1F11">>, <<"U+1F1A","U+1F12">>,
      <<"U+1F1B","U+1F13">>, <<"U+1F1C","U+1F14">>, <<"U+1F1D","U+1F15">>, <<"U+1F28","U+1F20">>,
      <<"U+1F29","U+1F21">>, <<"U+1F2A","U+1F22">>, <<"U+1F2B","U+1F23">>, <<"U+1F2C","U+1F24">>,
      <<"U+1F2D","U+1F25">>, <<"U+1F2E","U+1F26">>, <<"U+1F2F","U+1F27">>, <<"U+1F38","U+1F30">>,
      <<"U+1F39","U+1F31">>, <<"U+1F3A","U+1F32">>, <<"U+1F3B","U+1F33">>, <<"U+1F3C","U+1F34">>,
      <<"U+1F3D","U+1F35">>, <<"U+1F3E","U+1F36">>, <<"U+1F3F","U+1F37">>, <<"U+1F48","U+1F40">>,
      <<"U+1F49","U+1F41">>, <<"U+1F4A","U+1F42">>, <<"U+1F4B","U+1F43">>, <<"U+1F4C","U+1F44">>,
      <<"U+1F4D","U+1F45">>, <<"U+1F59","U+1F51">>, <<"U+1F5B","U+1F53">>, <<"U+1F5D","U+1F55">>,
      <<"U+1F5F","U+1F57">>, <<"U+1F68","U+1F60">>, <<"U+1F69","U+1F61">>, <<"U+1F6A","U+1F62">>,
      <<"U+1F6B","U+1F63">>, <<"U+1F6C","U+1F64">>, <<"U+1F6D","U+1F65">>, <<"U+1F6E","U+1F66">>,
      <<"U+1F6F","U+1F67">>, <<"U+1F88","U+1F80">>, <<"U+1F89","U+1F81">>, <<"U+1F8A","U+1F82">>,
      <<"U+1F8B","U+1F83">>, <<"U+1F8C","U+1F84">>, <<"U+1F8D","U+1F85">>, <<"U+1F8E","U+1F86">>,
      <<"U+1F8F","U+1F87">>, <<"U+1F98","U+1F90">>, <<"U+1F99","U+1F91">>, <<"U+1F9A","U+1F92">>,
      <<"U+1F9B","U+1F93">>, <<"U+1F9C","U+1F94">>, <<"U+1F9D","U+1F95">>, <<"U+1F9E","U+1F96">>,
      <<"U+1F9F","U+1F97">>, <<"U+1FA8","U+1FA0">>, <<"U+1FA9","U+1FA1">>, <<"U+1FAA","U+1FA2">>,
      <<"U+1FAB","U+1FA3">>, <<"U+1FAC","U+1FA4">>, <<"U+1FAD","U+1FA5">>, <<"U+1FAE","U+1FA6">>,
      <<"U+1FAF","U+1FA7">>, <<"U+1FB8","U+1FB0">>, <<"U+1FB9","U+1FB1">>, <<"U+1FBA","U+1F70">>,
      <<"U+1FBB","U+1F71">>, <<"U+1FBC","U+1FB3">>, <<"U+1FC8","U+1F72">>, <<"U+1FC9","U+1F73">>,
      <<"U+1FCA","U+1F74">>, <<"U+1FCB","U+1F75">>, <<"U+1FCC","U+1FC3">>, <<"U+1FD8","U+1FD0">>,
      <<"U+1FD9","U+1FD1">>, <<"U+1FDA","U+1F76">>, <<"U+1FDB","U+1F77">>, <<"U+1FE8","U+1FE0">>,
      <<"U+1FE9","U+1FE1">>, <<"U+1FEA","U+1F7A">>, <<"U+1FEB","U+1F7B">>, <<"U+1FEC","U+1FE5">>,
      <<"U+1FF8","U+1F78">>, <<"U+1FF9","U+1F79">>, <<"U+1FFA","U+1F7C">>, <<"U+1FFB","U+1F7D">>,
      <<"U+1FFC","U+1FF3">>, <<"U+2126","U+03C9">>, <<"U+212A","k">>, <<"U+212B","å">>,
      <<"U+2132","U+214E">>, <<"U+2160","U+2170">>, <<"U+2161","U+2171">>, <<"U+2162","U+2172">>,
      <<"U+2163","U+2173">>, <<"U+2164","U+2174">>, <<"U+2165","U+2175">>, <<"U+2166","U+2176">>,
      <<"U+2167","U+2177">>, <<"U+2168","U+2178">>, <<"U+2169","U+2179">>, <<"U+216A","U+217A">>,
      <<"U+216B","U+217B">>, <<"U+216C","U+217C">>, <<"U+216D","U+217D">>, <<"U+216E","U+217E">>,
      <<"U+216F","U+217F">>, <<"U+2183","U+2184">>, <<"U+24B6","U+24D0">>, <<"U+24B7","U+24D1">>,
      <<"U+24B8","U+24D2">>, <<"U+24B9","U+24D3">>, <<"U+24BA","U+24D4">>, <<"U+24BB","U+24D5">>,
      <<"U+24BC","U+24D6">>, <<"U+24BD","U+24D7">>, <<"U+24BE","U+24D8">>, <<"U+24BF","U+24D9">>,
      <<"U+24C0","U+24DA">>, <<"U+24C1","U+24DB">>, <<"U+24C2","U+24DC">>, <<"U+24C3","U+24DD">>,
      <<"U+24C4","U+24DE">>, <<"U+24C5","U+24DF">>, <<"U+24C6","U+24E0">>, <<"U+24C7","U+24E1">>,
      <<"U+24C8","U+24E2">>, <<"U+24C9","U+24E3">>, <<"U+24CA","U+24E4">>, <<"U+24CB","U+24E5">>,
      <<"U+24CC","U+24E6">>, <<"U+24CD","U+24E7">>, <<"U+24CE","U+24E8">>, <<"U+24CF","U+24E9">>,
      <<"U+2C00","U+2C30">>, <<"U+2C01","U+2C31">>, <<"U+2C02","U+2C32">>, <<"U+2C03","U+2C33">>,
      <<"U+2C04","U+2C34">>, <<"U+2C05","U+2C35">>, <<"U+2C06","U+2C36">>, <<"U+2C07","U+2C37">>,
      <<"U+2C08","U+2C38">>, <<"U+2C09","U+2C39">>, <<"U+2C0A","U+2C3A">>, <<"U+2C0B","U+2C3B">>,
      <<"U+2C0C","U+2C3C">>, <<"U+2C0D","U+2C3D">>, <<"U+2C0E","U+2C3E">>, <<"U+2C0F","U+2C3F">>,
      <<"U+2C10","U+2C40">>, <<"U+2C11","U+2C41">>, <<"U+2C12","U+2C42">>, <<"U+2C13","U+2C43">>,
      <<"U+2C14","U+2C44">>, <<"U+2C15","U+2C45">>, <<"U+2C16","U+2C46">>, <<"U+2C17","U+2C47">>,
      <<"U+2C18","U+2C48">>, <<"U+2C19","U+2C49">>, <<"U+2C1A","U+2C4A">>, <<"U+2C1B","U+2C4B">>,
      <<"U+2C1C","U+2C4C">>, <<"U+2C1D","U+2C4D">>, <<"U+2C1E","U+2C4E">>, <<"U+2C1F","U+2C4F">>,
      <<"U+2C20","U+2C50">>, <<"U+2C21","U+2C51">>, <<"U+2C22","U+2C52">>, <<"U+2C23","U+2C53">>,
      <<"U+2C24","U+2C54">>, <<"U+2C25","U+2C55">>, <<"U+2C26","U+2C56">>, <<"U+2C27","U+2C57">>,
      <<"U+2C28","U+2C58">>, <<"U+2C29","U+2C59">>, <<"U+2C2A","U+2C5A">>, <<"U+2C2B","U+2C5B">>,
      <<"U+2C2C","U+2C5C">>, <<"U+2C2D","U+2C5D">>, <<"U+2C2E","U+2C5E">>, <<"U+2C2F","U+2C5F">>,
      <<"U+2C60","U+2C61">>, <<"U+2C62","U+026B">>, <<"U+2C63","U+1D7D">>, <<"U+2C64","U+027D">>,
      <<"U+2C67","U+2C68">>, <<"U+2C69","U+2C6A">>, <<"U+2C6B","U+2C6C">>, <<"U+2C6D","U+0251">>,
      <<"U+2C6E","U+0271">>, <<"U+2C6F","U+0250">>, <<"U+2C70","U+0252">>, <<"U+2C72","U+2C73">>,
      <<"U+2C75","U+2C76">>, <<"U+2C7E","U+023F">>, <<"U+2C7F","U+0240">>, <<"U+2C80","U+2C81">>,
      <<"U+2C82","U+2C83">>, <<"U+2C84","U+2C85">>, <<"U+2C86","U+2C87">>, <<"U+2C88","U+2C89">>,
      <<"U+2C8A","U+2C8B">>, <<"U+2C8C","U+2C8D">>, <<"U+2C8E","U+2C8F">>, <<"U+2C90","U+2C91">>,
      <<"U+2C92","U+2C93">>, <<"U+2C94","U+2C95">>, <<"U+2C96","U+2C97">>, <<"U+2C98","U+2C99">>,
      <<"U+2C9A","U+2C9B">>, <<"U+2C9C","U+2C9D">>, <<"U+2C9E","U+2C9F">>, <<"U+2CA0","U+2CA1">>,
      <<"U+2CA2","U+2CA3">>, <<"U+2CA4","U+2CA5">>, <<"U+2CA6","U+2CA7">>, <<"U+2CA8","U+2CA9">>,
      <<"U+2CAA","U+2CAB">>, <<"U+2CAC","U+2CAD">>, <<"U+2CAE","U+2CAF">>, <<"U+2CB0","U+2CB1">>,
      <<"U+2CB2","U+2CB3">>, <<"U+2CB4","U+2CB5">>, <<"U+2CB6","U+2CB7">>, <<"U+2CB8","U+2CB9">>,
      <<"U+2CBA","U+2CBB">>, <<"U+2CBC","U+2CBD">>, <<"U+2CBE","U+2CBF">>, <<"U+2CC0","U+2CC1">>,
      <<"U+2CC2","U+2CC3">>, <<"U+2CC4","U+2CC5">>, <<"U+2CC6","U+2CC7">>, <<"U+2CC8","U+2CC9">>,
      <<"U+2CCA","U+2CCB">>, <<"U+2CCC","U+2CCD">>, <<"U+2CCE","U+2CCF">>, <<"U+2CD0","U+2CD1">>,
      <<"U+2CD2","U+2CD3">>, <<"U+2CD4","U+2CD5">>, <<"U+2CD6","U+2CD7">>, <<"U+2CD8","U+2CD9">>,
      <<"U+2CDA","U+2CDB">>, <<"U+2CDC","U+2CDD">>, <<"U+2CDE","U+2CDF">>, <<"U+2CE0","U+2CE1">>,
      <<"U+2CE2","U+2CE3">>, <<"U+2CEB","U+2CEC">>, <<"U+2CED","U+2CEE">>, <<"U+2CF2","U+2CF3">>,
      <<"U+A640","U+A641">>, <<"U+A642","U+A643">>, <<"U+A644","U+A645">>, <<"U+A646","U+A647">>,
      <<"U+A648","U+A649">>, <<"U+A64A","U+A64B">>, <<"U+A64C","U+A64D">>, <<"U+A64E","U+A64F">>,
      <<"U+A650","U+A651">>, <<"U+A652","U+A653">>, <<"U+A654","U+A655">>, <<"U+A656","U+A657">>,
      <<"U+A658","U+A659">>, <<"U+A65A","U+A65B">>, <<"U+A65C","U+A65D">>, <<"U+A65E","U+A65F">>,
      <<"U+A660","U+A661">>, <<"U+A662","U+A663">>, <<"U+A664","U+A665">>, <<"U+A666","U+A667">>,
      <<"U+A668","U+A669">>, <<"U+A66A","U+A66B">>, <<"U+A66C","U+A66D">>, <<"U+A680","U+A681">>,
      <<"U+A682","U+A683">>, <<"U+A684","U+A685">>, <<"U+A686","U+A687">>, <<"U+A688","U+A689">>,
      <<"U+A68A","U+A68B">>, <<"U+A68C","U+A68D">>, <<"U+A68E","U+A68F">>, <<"U+A690","U+A691">>,
      <<"U+A692","U+A693">>, <<"U+A694","U+A695">>, <<"U+A696","U+A697">>, <<"U+A698","U+A699">>,
      <<"U+A69A","U+A69B">>, <<"U+A722","U+A723">>, <<"U+A724","U+A725">>, <<"U+A726","U+A727">>,
      <<"U+A728","U+A729">>, <<"U+A72A","U+A72B">>, <<"U+A72C","U+A72D">>, <<"U+A72E","U+A72F">>,
      <<"U+A732","U+A733">>, <<"U+A734","U+A735">>, <<"U+A736","U+A737">>, <<"U+A738","U+A739">>,
      <<"U+A73A","U+A73B">>, <<"U+A73C","U+A73D">>, <<"U+A73E","U+A73F">>, <<"U+A740","U+A741">>,
      <<"U+A742","U+A743">>, <<"U+A744","U+A745">>, <<"U+A746","U+A747">>, <<"U+A748","U+A749">>,
      <<"U+A74A","U+A74B">>, <<"U+A74C","U+A74D">>, <<"U+A74E","U+A74F">>, <<"U+A750","U+A751">>,
      <<"U+A752","U+A753">>, <<"U+A754","U+A755">>, <<"U+A756","U+A757">>, <<"U+A758","U+A759">>,
      <<"U+A75A","U+A75B">>, <<"U+A75C","U+A75D">>, <<"U+A75E","U+A75F">>, <<"U+A760","U+A761">>,
      <<"U+A762","U+A763">>, <<"U+A764","U+A765">>, <<"U+A766","U+A767">>, <<"U+A768","U+A769">>,
      <<"U+A76A","U+A76B">>, <<"U+A76C","U+A76D">>, <<"U+A76E","U+A76F">>, <<"U+A779","U+A77A">>,
      <<"U+A77B","U+A77C">>, <<"U+A77D","U+1D79">>, <<"U+A77E","U+A77F">>, <<"U+A780","U+A781">>,
      <<"U+A782","U+A783">>, <<"U+A784","U+A785">>, <<"U+A786","U+A787">>, <<"U+A78B","U+A78C">>,
      <<"U+A78D","U+0265">>, <<"U+A790","U+A791">>, <<"U+A792","U+A793">>, <<"U+A796","U+A797">>,
      <<"U+A798","U+A799">>, <<"U+A79A","U+A79B">>, <<"U+A79C","U+A79D">>, <<"U+A79E","U+A79F">>,
      <<"U+A7A0","U+A7A1">>, <<"U+A7A2","U+A7A3">>, <<"U+A7A4","U+A7A5">>, <<"U+A7A6","U+A7A7">>,
      <<"U+A7A8","U+A7A9">>, <<"U+A7AA","U+0266">>, <<"U+A7AB","U+025C">>, <<"U+A7AC","U+0261">>,
      <<"U+A7AD","U+026C">>, <<"U+A7AE","U+026A">>, <<"U+A7B0","U+029E">>, <<"U+A7B1","U+0287">>,
      <<"U+A7B2","U+029D">>, <<"U+A7B3","U+AB53">>, <<"U+A7B4","U+A7B5">>, <<"U+A7B6","U+A7B7">>,
      <<"U+A7B8","U+A7B9">>, <<"U+A7BA","U+A7BB">>, <<"U+A7BC","U+A7BD">>, <<"U+A7BE","U+A7BF">>,
      <<"U+A7C0","U+A7C1">>, <<"U+A7C2","U+A7C3">>, <<"U+A7C4","U+A794">>, <<"U+A7C5","U+0282">>,
      <<"U+A7C6","U+1D8E">>, <<"U+A7C7","U+A7C8">>, <<"U+A7C9","U+A7CA">>, <<"U+A7D0","U+A7D1">>,
      <<"U+A7D6","U+A7D7">>, <<"U+A7D8","U+A7D9">>, <<"U+A7F5","U+A7F6">>, <<"U+FF21","U+FF41">>,
      <<"U+FF22","U+FF42">>, <<"U+FF23","U+FF43">>, <<"U+FF24","U+FF44">>, <<"U+FF25","U+FF45">>,
      <<"U+FF26","U+FF46">>, <<"U+FF27","U+FF47">>, <<"U+FF28","U+FF48">>, <<"U+FF29","U+FF49">>,
      <<"U+FF2A","U+FF4A">>, <<"U+FF2B","U+FF4B">>, <<"U+FF2C","U+FF4C">>, <<"U+FF2D","U+FF4D">>,
      <<"U+FF2E","U+FF4E">>, <<"U+FF2F","U+FF4F">>, <<"U+FF30","U+FF50">>, <<"U+FF31","U+FF51">>,
      <<"U+FF32","U+FF52">>, <<"U+FF33","U+FF53">>, <<"U+FF34","U+FF54">>, <<"U+FF35","U+FF55">>,
      <<"U+FF36","U+FF56">>, <<"U+FF37","U+FF57">>, <<"U+FF38","U+FF58">>, <<"U+FF39","U+FF59">>,
      <<"U+FF3A","U+FF5A">>, <<"U+10400","U+10428">>, <<"U+10401","U+10429">>, <<"U+10402","U+1042A">>,
      <<"U+10403","U+1042B">>, <<"U+10404","U+1042C">>, <<"U+10405","U+1042D">>, <<"U+10406","U+1042E">>,
      <<"U+10407","U+1042F">>, <<"U+10408","U+10430">>, <<"U+10409","U+10431">>, <<"U+1040A","U+10432">>,
      <<"U+1040B","U+10433">>, <<"U+1040C","U+10434">>, <<"U+1040D","U+10435">>, <<"U+1040E","U+10436">>,
      <<"U+1040F","U+10437">>, <<"U+10410","U+10438">>, <<"U+10411","U+10439">>, <<"U+10412","U+1043A">>,
      <<"U+10413","U+1043B">>, <<"U+10414","U+1043C">>, <<"U+10415","U+1043D">>, <<"U+10416","U+1043E">>,
      <<"U+10417","U+1043F">>, <<"U+10418","U+10440">>, <<"U+10419","U+10441">>, <<"U+1041A","U+10442">>,
      <<"U+1041B","U+10443">>, <<"U+1041C","U+10444">>, <<"U+1041D","U+10445">>, <<"U+1041E","U+10446">>,
      <<"U+1041F","U+10447">>, <<"U+10420","U+10448">>, <<"U+10421","U+10449">>, <<"U+10422","U+1044A">>,
      <<"U+10423","U+1044B">>, <<"U+10424","U+1044C">>, <<"U+10425","U+1044D">>, <<"U+10426","U+1044E">>,
      <<"U+10427","U+1044F">>, <<"U+104B0","U+104D8">>, <<"U+104B1","U+104D9">>, <<"U+104B2","U+104DA">>,
      <<"U+104B3","U+104DB">>, <<"U+104B4","U+104DC">>, <<"U+104B5","U+104DD">>, <<"U+104B6","U+104DE">>,
      <<"U+104B7","U+104DF">>, <<"U+104B8","U+104E0">>, <<"U+104B9","U+104E1">>, <<"U+104BA","U+104E2">>,
      <<"U+104BB","U+104E3">>, <<"U+104BC","U+104E4">>, <<"U+104BD","U+104E5">>, <<"U+104BE","U+104E6">>,
      <<"U+104BF","U+104E7">>, <<"U+104C0","U+104E8">>, <<"U+104C1","U+104E9">>, <<"U+104C2","U+104EA">>,
      <<"U+104C3","U+104EB">>, <<"U+104C4","U+104EC">>, <<"U+104C5","U+104ED">>, <<"U+104C6","U+104EE">>,
      <<"U+104C7","U+104EF">>, <<"U+104C8","U+104F0">>, <<"U+104C9","U+104F1">>, <<"U+104CA","U+104F2">>,
      <<"U+104CB","U+104F3">>, <<"U+104CC","U+104F4">>, <<"U+104CD","U+104F5">>, <<"U+104CE","U+104F6">>,
      <<"U+104CF","U+104F7">>, <<"U+104D0","U+104F8">>, <<"U+104D1","U+104F9">>, <<"U+104D2","U+104FA">>,
      <<"U+104D3","U+104FB">>, <<"U+10570","U+10597">>, <<"U+10571","U+10598">>, <<"U+10572","U+10599">>,
      <<"U+10573","U+1059A">>, <<"U+10574","U+1059B">>, <<"U+10575","U+1059C">>, <<"U+10576","U+1059D">>,
      <<"U+10577","U+1059E">>, <<"U+10578","U+1059F">>, <<"U+10579","U+105A0">>, <<"U+1057A","U+105A1">>,
      <<"U+1057C","U+105A3">>, <<"U+1057D","U+105A4">>, <<"U+1057E","U+105A5">>, <<"U+1057F","U+105A6">>,
      <<"U+10580","U+105A7">>, <<"U+10581","U+105A8">>, <<"U+10582","U+105A9">>, <<"U+10583","U+105AA">>,
      <<"U+10584","U+105AB">>, <<"U+10585","U+105AC">>, <<"U+10586","U+105AD">>, <<"U+10587","U+105AE">>,
      <<"U+10588","U+105AF">>, <<"U+10589","U+105B0">>, <<"U+1058A","U+105B1">>, <<"U+1058C","U+105B3">>,
      <<"U+1058D","U+105B4">>, <<"U+1058E","U+105B5">>, <<"U+1058F","U+105B6">>, <<"U+10590","U+105B7">>,
      <<"U+10591","U+105B8">>, <<"U+10592","U+105B9">>, <<"U+10594","U+105BB">>, <<"U+10595","U+105BC">>,
      <<"U+10C80","U+10CC0">>, <<"U+10C81","U+10CC1">>, <<"U+10C82","U+10CC2">>, <<"U+10C83","U+10CC3">>,
      <<"U+10C84","U+10CC4">>, <<"U+10C85","U+10CC5">>, <<"U+10C86","U+10CC6">>, <<"U+10C87","U+10CC7">>,
      <<"U+10C88","U+10CC8">>, <<"U+10C89","U+10CC9">>, <<"U+10C8A","U+10CCA">>, <<"U+10C8B","U+10CCB">>,
      <<"U+10C8C","U+10CCC">>, <<"U+10C8D","U+10CCD">>, <<"U+10C8E","U+10CCE">>, <<"U+10C8F","U+10CCF">>,
      <<"U+10C90","U+10CD0">>, <<"U+10C91","U+10CD1">>, <<"U+10C92","U+10CD2">>, <<"U+10C93","U+10CD3">>,
      <<"U+10C94","U+10CD4">>, <<"U+10C95","U+10CD5">>, <<"U+10C96","U+10CD6">>, <<"U+10C97","U+10CD7">>,
      <<"U+10C98","U+10CD8">>, <<"U+10C99","U+10CD9">>, <<"U+10C9A","U+10CDA">>, <<"U+10C9B","U+10CDB">>,
      <<"U+10C9C","U+10CDC">>, <<"U+10C9D","U+10CDD">>, <<"U+10C9E","U+10CDE">>, <<"U+10C9F","U+10CDF">>,
      <<"U+10CA0","U+10CE0">>, <<"U+10CA1","U+10CE1">>, <<"U+10CA2","U+10CE2">>, <<"U+10CA3","U+10CE3">>,
      <<"U+10CA4","U+10CE4">>, <<"U+10CA5","U+10CE5">>, <<"U+10CA6","U+10CE6">>, <<"U+10CA7","U+10CE7">>,
      <<"U+10CA8","U+10CE8">>, <<"U+10CA9","U+10CE9">>, <<"U+10CAA","U+10CEA">>, <<"U+10CAB","U+10CEB">>,
      <<"U+10CAC","U+10CEC">>, <<"U+10CAD","U+10CED">>, <<"U+10CAE","U+10CEE">>, <<"U+10CAF","U+10CEF">>,
      <<"U+10CB0","U+10CF0">>, <<"U+10CB1","U+10CF1">>, <<"U+10CB2","U+10CF2">>, <<"U+118A0","U+118C0">>,
      <<"U+118A1","U+118C1">>, <<"U+118A2","U+118C2">>, <<"U+118A3","U+118C3">>, <<"U+118A4","U+118C4">>,
      <<"U+118A5","U+118C5">>, <<"U+118A6","U+118C6">>, <<"U+118A7","U+118C7">>, <<"U+118A8","U+118C8">>,
      <<"U+118A9","U+118C9">>, <<"U+118AA","U+118CA">>, <<"U+118AB","U+118CB">>, <<"U+118AC","U+118CC">>,
      <<"U+118AD","U+118CD">>, <<"U+118AE","U+118CE">>, <<"U+118AF","U+118CF">>, <<"U+118B0","U+118D0">>,
      <<"U+118B1","U+118D1">>, <<"U+118B2","U+118D2">>, <<"U+118B3","U+118D3">>, <<"U+118B4","U+118D4">>,
      <<"U+118B5","U+118D5">>, <<"U+118B6","U+118D6">>, <<"U+118B7","U+118D7">>, <<"U+118B8","U+118D8">>,
      <<"U+118B9","U+118D9">>, <<"U+118BA","U+118DA">>, <<"U+118BB","U+118DB">>, <<"U+118BC","U+118DC">>,
      <<"U+118BD","U+118DD">>, <<"U+118BE","U+118DE">>, <<"U+118BF","U+118DF">>, <<"U+16E40","U+16E60">>,
      <<"U+16E41","U+16E61">>, <<"U+16E42","U+16E62">>, <<"U+16E43","U+16E63">>, <<"U+16E44","U+16E64">>,
      <<"U+16E45","U+16E65">>, <<"U+16E46","U+16E66">>, <<"U+16E47","U+16E67">>, <<"U+16E48","U+16E68">>,
      <<"U+16E49","U+16E69">>, <<"U+16E4A","U+16E6A">>, <<"U+16E4B","U+16E6B">>, <<"U+16E4C","U+16E6C">>,
      <<"U+16E4D","U+16E6D">>, <<"U+16E4E","U+16E6E">>, <<"U+16E4F","U+16E6F">>, <<"U+16E50","U+16E70">>,
      <<"U+16E51","U+16E71">>, <<"U+16E52","U+16E72">>, <<"U+16E53","U+16E73">>, <<"U+16E54","U+16E74">>,
      <<"U+16E55","U+16E75">>, <<"U+16E56","U+16E76">>, <<"U+16E57","U+16E77">>, <<"U+16E58","U+16E78">>,
      <<"U+16E59","U+16E79">>, <<"U+16E5A","U+16E7A">>, <<"U+16E5B","U+16E7B">>, <<"U+16E5C","U+16E7C">>,
      <<"U+16E5D","U+16E7D">>, <<"U+16E5E","U+16E7E">>, <<"U+16E5F","U+16E7F">>, <<"U+1E900","U+1E922">>,
      <<"U+1E901","U+1E923">>, <<"U+1E902","U+1E924">>, <<"U+1E903","U+1E925">>, <<"U+1E904","U+1E926">>,
      <<"U+1E905","U+1E927">>, <<"U+1E906","U+1E928">>, <<"U+1E907","U+1E929">>, <<"U+1E908","U+1E92A">>,
      <<"U+1E909","U+1E92B">>, <<"U+1E90A","U+1E92C">>, <<"U+1E90B","U+1E92D">>, <<"U+1E90C","U+1E92E">>,
      <<"U+1E90D","U+1E92F">>, <<"U+1E90E","U+1E930">>, <<"U+1E90F","U+1E931">>, <<"U+1E910","U+1E932">>,
      <<"U+1E911","U+1E933">>, <<"U+1E912","U+1E934">>, <<"U+1E913","U+1E935">>, <<"U+1E914","U+1E936">>,
      <<"U+1E915","U+1E937">>, <<"U+1E916","U+1E938">>, <<"U+1E917","U+1E939">>, <<"U+1E918","U+1E93A">>,
      <<"U+1E919","U+1E93B">>, <<"U+1E91A","U+1E93C">>, <<"U+1E91B","U+1E93D">>, <<"U+1E91C","U+1E93E">>,
      <<"U+1E91D","U+1E93F">>, <<"U+1E91E","U+1E940">>, <<"U+1E91F","U+1E941">>, <<"U+1E920","U+1E942">>,
      <<"U+1E921","U+1E943">> }

LowerTable ==
    [c \in {p[1] : p \in LowerPairs} |-> (CHOOSE p \in LowerPairs : p[1] = c)[2]]

\* unicode.ToLower: the lower case of a character that has one, else the character
LowerChar(c) == IF c \in DOMAIN LowerTable THEN LowerTable[c] ELSE c

\* strings.ToLower
ToLower(s) == [i \in 1..Len(s) |-> LowerChar(s[i])]

\* strings.Contains(s, sub)
Contains(s, sub) ==
    \E i \in 1..(Len(s) - Len(sub) + 1) : SubSeq(s, i, i + Len(sub) - 1) = sub

\* strings.TrimSpace: drop leading and trailing white space
RECURSIVE TrimLeft(_)
TrimLeft(s) ==
    IF s # <<>> /\ Head(s) \in WhiteSpace THEN TrimLeft(Tail(s)) ELSE s

RECURSIVE TrimRight(_)
TrimRight(s) ==
    IF s # <<>> /\ s[Len(s)] \in WhiteSpace THEN TrimRight(SubSeq(s, 1, Len(s) - 1)) ELSE s

TrimSpace(s) == TrimRight(TrimLeft(s))

\* strings.Split(s, "\n")[0]: the text before the first newline
RECURSIVE FirstLine(_)
FirstLine(s) ==
    IF s = <<>> \/ Head(s) = "\n" THEN <<>> ELSE <<Head(s)>> \o FirstLine(Tail(s))

\* strings.TrimPrefix(s, "v")
TrimPrefixV(s) == IF s # <<>> /\ Head(s) = "v" THEN Tail(s) ELSE s

-----------------------------------------------------------------------------
(* Go int: 64-bit two's complement, held as sign and decimal magnitude *)

MaxInt64Mag == <<9,2,2,3,3,7,2,0,3,6,8,5,4,7,7,5,8,0,7>>

MinInt64Mag == <<9,2,2,3,3,7,2,0,3,6,8,5,4,7,7,5,8,0,8>>

MaxInt64 == [neg |-> FALSE, mag |-> MaxInt64Mag]

MinInt64 == [neg |-> TRUE, mag |-> MinInt64Mag]

Zero == [neg |-> FALSE, mag |-> <<0>>]

DigitVal(c) ==
    CASE c = "0" -> 0 [] c = "1" -> 1 [] c = "2" -> 2 [] c = "3" -> 3 [] c = "4" -> 4
      [] c = "5" -> 5 [] c = "6" -> 6 [] c = "7" -> 7 [] c = "8" -> 8 [] c = "9" -> 9

DigitChar(d) ==
    CASE d = 0 -> "0" [] d = 1 -> "1" [] d = 2 -> "2" [] d = 3 -> "3" [] d = 4 -> "4"
      [] d = 5 -> "5" [] d = 6 -> "6" [] d = 7 -> "7" [] d = 8 -> "8" [] d = 9 -> "9"

\* the magnitude a run of digit characters denotes: leading zeros dropped
RECURSIVE StripZeros(_)
StripZeros(ds) ==
    IF Len(ds) > 1 /\ Head(ds) = 0 THEN StripZeros(Tail(ds)) ELSE ds

MagOf(run) == StripZeros([i \in 1..Len(run) |-> DigitVal(run[i])])

\* a < b on magnitudes without leading zeros
RECURSIVE LexLess(_, _)
LexLess(a, b) ==
    /\ a # <<>>
    /\ \/ Head(a) < Head(b)
       \/ Head(a) = Head(b) /\ LexLess(Tail(a), Tail(b))

MagLess(a, b) == Len(a) < Len(b) \/ (Len(a) = Len(b) /\ LexLess(a, b))

\* magnitude + 1
RECURSIVE MagInc(_)
MagInc(ds) ==
    IF ds = <<>> THEN <<1>>
    ELSE IF ds[Len(ds)] < 9 THEN SubSeq(ds, 1, Len(ds) - 1) \o <<ds[Len(ds)] + 1>>
    ELSE MagInc(SubSeq(ds, 1, Len(ds) - 1)) \o <<0>>

\* magnitude - 1, for a magnitude of at least 1
RECURSIVE MagDecRaw(_)
MagDecRaw(ds) ==
    IF ds[Len(ds)] > 0 THEN SubSeq(ds, 1, Len(ds) - 1) \o <<ds[Len(ds)] - 1>>
    ELSE MagDecRaw(SubSeq(ds, 1, Len(ds) - 1)) \o <<9>>

MagDec(ds) == StripZeros(MagDecRaw(ds))

\* strconv.Atoi on a run of digits, the error discarded: a value above the
\* int range comes back as the largest int
Atoi(run) ==
    IF MagLess(MaxInt64Mag, MagOf(run)) THEN MaxInt64
    ELSE [neg |-> FALSE, mag |-> MagOf(run)]

\* x++ on a Go int: wraps from the largest int to the smallest
Incr(x) ==
    IF x.neg
    THEN IF x.mag = <<1>> THEN Zero ELSE [neg |-> TRUE, mag |-> MagDec(x.mag)]
    ELSE IF x = MaxInt64 THEN MinInt64 ELSE [neg |-> FALSE, mag |-> MagInc(x.mag)]

\* the %d verb of fmt.Sprintf
FormatInt(x) ==
    (IF x.neg THEN <<"-">> ELSE <<>>) \o [i \in 1..Len(x.mag) |-> DigitChar(x.mag[i])]

-----------------------------------------------------------------------------
(* parseVersion *)

\* (\d+): the longest run of digits s starts with
RECURSIVE DigitRun(_)
DigitRun(s) ==
    IF s # <<>> /\ Head(s) \in DigitChars THEN <<Head(s)>> \o DigitRun(Tail(s)) ELSE <<>>

Drop(s, n) == SubSeq(s, n + 1, Len(s))

\* the pattern anchored at both ends, ^(\d+)\.(\d+)\.(\d+)$
FindStringSubmatchAnchored(s) ==
    LET g1 == DigitRun(s)
        r1 == Drop(s, Len(g1))
        g2 == IF r1 # <<>> THEN DigitRun(Tail(r1)) ELSE <<>>
        r2 == IF r1 # <<>> THEN Drop(Tail(r1), Len(g2)) ELSE <<>>
        g3 == IF r2 # <<>> THEN DigitRun(Tail(r2)) ELSE <<>>
    IN  IF /\ g1 # <<>> /\ r1 # <<>> /\ Head(r1) = "."
           /\ g2 # <<>> /\ r2 # <<>> /\ Head(r2) = "."
           /\ g3 # <<>> /\ Len(g3) = Len(r2) - 1
        THEN <<g1, g2, g3>>
        ELSE <<>>

\* re.FindStringSubmatch for ^(\d+)\.(\d+)\.(\d+): the three groups, or <<>>
\* when the string does not match
FindStringSubmatch(s) ==
    LET g1 == DigitRun(s)
        r1 == Drop(s, Len(g1))
        g2 == IF r1 # <<>> THEN DigitRun(Tail(r1)) ELSE <<>>
        r2 == IF r1 # <<>> THEN Drop(Tail(r1), Len(g2)) ELSE <<>>
        g3 == IF r2 # <<>> THEN DigitRun(Tail(r2)) ELSE <<>>
    IN  IF /\ g1 # <<>> /\ r1 # <<>> /\ Head(r1) = "."
           /\ g2 # <<>> /\ r2 # <<>> /\ Head(r2) = "."
           /\ g3 # <<>>
        THEN <<g1, g2, g3>>
        ELSE <<>>

NoVersion == <<Zero, Zero, Zero>>

\* parseVersion answering 0.0.0 for a string that does not match
parseVersionDefaulting(v) ==
    LET trimmed == TrimPrefixV(v)
        matches == FindStringSubmatch(trimmed)
    IN  IF matches = <<>>
        THEN [ok |-> TRUE, ver |-> NoVersion, err |-> [kind |-> "nil", text |-> <<>>]]
        ELSE [ok |-> TRUE,
              ver |-> <<Atoi(matches[1]), Atoi(matches[2]), Atoi(matches[3])>>,
              err |-> [kind |-> "nil", text |-> <<>>]]

parseVersion(v) ==
    LET trimmed == TrimPrefixV(v)
        matches == FindStringSubmatch(trimmed)
    IN  IF matches = <<>>
        THEN [ok |-> FALSE, ver |-> NoVersion,
              err |-> [kind |-> "InvalidVersionFormat", text |-> trimmed]]
        ELSE [ok |-> TRUE,
              ver |-> <<Atoi(matches[1]), Atoi(matches[2]), Atoi(matches[3])>>,
              err |-> [kind |-> "nil", text |-> <<>>]]

-----------------------------------------------------------------------------
(* The strings the program compares with, and the inputs the model draws from *)

TagListings ==
    { <<>>,  \* the empty string
      <<" ","\n">>,  \*  \n
      <<"v","1",".","2",".","3","\n","v","1",".","0",".","0","\n">>,  \* v1.2.3\nv1.0.0\n
      <<"v","2",".","3",".","4">>,  \* v2.3.4
      <<"1",".","2",".","3","-","r","c","1","\n">>,  \* 1.2.3-rc1\n
      <<"a","b","c","\n","v","1",".","0",".","0">>,  \* abc\nv1.0.0
      <<"v","1",".","2">>,  \* v1.2
      <<" "," ","v","0",".","9",".","9"," ","\n","v","0",".","1",".","0">>,  \*   v0.9.9 \nv0.1.0
      <<"v","0","0","7",".","0","8",".","0","9","\n">>,  \* v007.08.09\n
      <<"v","v","1",".","2",".","3">>,  \* vv1.2.3
      <<"v","1",".","2",".","9","2","2","3","3","7","2","0","3","6","8","5","4","7","7","5","8","0","7">>,  \* v1.2.9223372036854775807
      <<"v","9","2","2","3","3","7","2","0","3","6","8","5","4","7","7","5","8","0","7",".","0",".","1">>,  \* v9223372036854775807.0.1
      <<"v","0",".","9","9","9","9","9","9","9","9","9","9","9","9","9","9","9","9","9","9","9","9",".","0">>,  \* v0.99999999999999999999.0
      <<" ","\f","\n">>,  \* U+00A0 \f \n
      <<"\f","v","3",".","1",".","4","U+2003","\n","v","3",".","0",".","0">> }  \* \f v3.1.4 U+2003 \n v3.0.0

CommitMsgs ==
    { <<>>,  \* the empty string
      <<"f","i","x"," ","b","u","g">>,  \* fix bug
      <<"[","p","a","t","c","h","]"," ","f","i","x">>,  \* [patch] fix
      <<"x"," ","[","M","A","J","O","R","]">>,  \* x [MAJOR]
      <<"[","s","k","i","p","]","[","m","a","j","o","r","]">>,  \* [skip][major]
      <<"[","m","a","j","o","r","]"," ","[","S","k","i","p","]">>,  \* [major] [Skip]
      <<"[","M","i","n","o","r","]">>,  \* [Minor]
      <<"[","P","a","t","c","h","]","[","m","i","n","o","r","]">>,  \* [Patch][minor]
      <<"[","s","k","i","p"," ","(","m","a","j","o","r",")","]">> }  \* [skip (major)]

Versions ==
    { <<>>,  \* the empty string
      <<"v","9",".","9",".","9">>,  \* v9.9.9
      <<"r","e","l">> }  \* rel

Messages ==
    { <<>>,  \* the empty string
      <<"m">> }  \* m

EdgeVersions ==
    { <<"v","1",".","2",".","3">>,  \* v1.2.3
      <<"1",".","2",".","3","-","r","c","1">>,  \* 1.2.3-rc1
      <<"a","b","c">>,  \* abc
      <<"v","v","1",".","2",".","3">>,  \* vv1.2.3
      <<"V","1",".","2",".","3">>,  \* V1.2.3
      <<" ","v","1",".","2",".","3">>,  \*  v1.2.3
      <<"v","1",".","2",".","3",".","4">>,  \* v1.2.3.4
      <<"v","1","0",".","2","0",".","3","0","\n">>,  \* v10.20.30\n
      <<"9","2","2","3","3","7","2","0","3","6","8","5","4","7","7","5","8","0","7",".","0",".","0">>,  \* 9223372036854775807.0.0
      <<"v","0",".","9","2","2","3","3","7","2","0","3","6","8","5","4","7","7","5","8","0","8",".","0">>,  \* v0.9223372036854775808.0
      <<"0",".","0",".","9","9","9","9","9","9","9","9","9","9","9","9","9","9","9","9","9","9","9","9">>,  \* 0.0.99999999999999999999
      <<"v","0","0","0","0","0","0","0","0","0","0","0","0","0","0","0","0","0","0","0","0","1",".","0",".","0">> }  \* v000000000000000000001.0.0

Tokens ==
    { <<"[","s","k","i","p","]">>,  \* [skip]
      <<"[","S","K","I","P","]">>,  \* [SKIP]
      <<"[","m","a","j","o","r","]">>,  \* [major]
      <<"[","M","a","j","o","r","]">>,  \* [Major]
      <<"[","m","i","n","o","r","]">>,  \* [minor]
      <<"[","M","I","N","O","R","]">>,  \* [MINOR]
      <<"[","p","a","t","c","h","]">>,  \* [patch]
      <<"[","P","a","t","c","h","]">>,  \* [Patch]
      <<"f","i","x"," ">>,  \* fix 
      <<"[">>,  \* [
      <<"s","k","i","p","]">>,  \* skip]
      <<"[","m","a">>,  \* [ma
      <<"j","o","r","]">>,  \* jor]
      <<"[","s","U+212A","i","p","]">>,  \* [sKip] with the Kelvin sign
      <<"[","m","U+0130","n","o","r","]">> }  \* [mInor] with capital I with dot

ReleasePrefix == <<"R","e","l","e","a","s","e"," ">>

MarkerSkip == <<"[","s","k","i","p","]">>

MarkerMajor == <<"[","m","a","j","o","r","]">>

MarkerMinor == <<"[","m","i","n","o","r","]">>

MarkerPatch == <<"[","p","a","t","c","h","]">>

DefaultTag == <<"v","0",".","0",".","0">>

-----------------------------------------------------------------------------
(* determineBumpType *)

BumpSkip == "skip"

BumpPatch == "patch"

BumpMinor == "minor"

BumpMajor == "major"

\* the sentinel error GetNextVersion returns for a skipped bump: a value of its
\* own, different from nil and from every other error
ErrVersionBumpSkipped == "ErrVersionBumpSkipped"

\* determineBumpType with the [major] test placed before the [skip] test
determineBumpTypeMajorFirst(commitMessages) ==
    LET lowerMessages == ToLower(commitMessages)
    IN  IF Contains(lowerMessages, MarkerMajor) THEN BumpMajor
        ELSE IF Contains(lowerMessages, MarkerSkip) THEN BumpSkip
        ELSE IF Contains(lowerMessages, MarkerMinor) THEN BumpMinor
        ELSE IF Contains(lowerMessages, MarkerPatch) THEN BumpPatch
        ELSE BumpMinor

\* determineBumpType falling back to a patch bump when no marker is found
determineBumpTypeDefaultPatch(commitMessages) ==
    LET lowerMessages == ToLower(commitMessages)
    IN  IF Contains(lowerMessages, MarkerSkip) THEN BumpSkip
        ELSE IF Contains(lowerMessages, MarkerMajor) THEN BumpMajor
        ELSE IF Contains(lowerMessages, MarkerMinor) THEN BumpMinor
        ELSE IF Contains(lowerMessages, MarkerPatch) THEN BumpPatch
        ELSE BumpPatch

determineBumpType(commitMessages) ==
    LET lowerMessages == ToLower(commitMessages)
    IN  IF Contains(lowerMessages, MarkerSkip) THEN BumpSkip
        ELSE IF Contains(lowerMessages, MarkerMajor) THEN BumpMajor
        ELSE IF Contains(lowerMessages, MarkerMinor) THEN BumpMinor
        ELSE IF Contains(lowerMessages, MarkerPatch) THEN BumpPatch
        ELSE BumpMinor

-----------------------------------------------------------------------------
(* GetNextVersion *)

\* lines 78-89 without the test for an empty listing
LatestTagOfNoDefault(err, stdout) ==
    IF err THEN DefaultTag ELSE TrimSpace(FirstLine(TrimSpace(stdout)))

\* lines 78-89: the latest tag taken from the output of the tag listing
LatestTagOf(err, stdout) ==
    IF err \/ TrimSpace(stdout) = <<>>
    THEN DefaultTag
    ELSE TrimSpace(FirstLine(TrimSpace(stdout)))

\* the switch on bumpType with the minor case not resetting patch
ApplyBumpNoReset(bt, v) ==
    CASE bt = BumpMajor -> <<Incr(v[1]), Zero, Zero>>
      [] bt = BumpMinor -> <<v[1], Incr(v[2]), v[3]>>
      [] bt = BumpPatch -> <<v[1], v[2], Incr(v[3])>>
      [] OTHER -> v

\* the switch on bumpType with the patch case leaving patch as it is
ApplyBumpPatchKept(bt, v) ==
    CASE bt = BumpMajor -> <<Incr(v[1]), Zero, Zero>>
      [] bt = BumpMinor -> <<v[1], Incr(v[2]), Zero>>
      [] OTHER -> v

\* the switch on bumpType with a default case that bumps minor
ApplyBumpDefaultMinor(bt, v) ==
    CASE bt = BumpMajor -> <<Incr(v[1]), Zero, Zero>>
      [] bt = BumpPatch -> <<v[1], v[2], Incr(v[3])>>
      [] OTHER -> <<v[1], Incr(v[2]), Zero>>

\* lines 115-125: the switch on bumpType
ApplyBump(bt, v) ==
    CASE bt = BumpMajor -> <<Incr(v[1]), Zero, Zero>>
      [] bt = BumpMinor -> <<v[1], Incr(v[2]), Zero>>
      [] bt = BumpPatch -> <<v[1], v[2], Incr(v[3])>>
      [] OTHER -> v

\* the format with minor and patch handed over in the wrong order
FormatVersionSwapped(v) ==
    <<"v">> \o FormatInt(v[1]) \o <<".">> \o FormatInt(v[3]) \o <<".">> \o FormatInt(v[2])

\* the format without the leading v
FormatVersionNoV(v) ==
    FormatInt(v[1]) \o <<".">> \o FormatInt(v[2]) \o <<".">> \o FormatInt(v[3])

\* fmt.Sprintf("v%d.%d.%d", major, minor, patch)
FormatVersion(v) ==
    <<"v">> \o FormatInt(v[1]) \o <<".">> \o FormatInt(v[2]) \o <<".">> \o FormatInt(v[3])

Result(v, e, t) == [version |-> v, err |-> e, text |-> t]

Pending == Result(<<>>, "pending", <<>>)

\* a command of a WithExec pipeline that ran, with its arguments and whether
\* it succeeded
Exec(c, a, m, ok) == [cmd |-> c, arg |-> a, msg |-> m, ok |-> ok]

Cmd(c, a, m) == Exec(c, a, m, TRUE)

\* lines 73-94: fetch and list the tags, pick the latest, parse it
FetchTags ==
    /\ pc = "fetch"
    /\ \E outcome \in {"ok", "fetchFailed", "listFailed"} :
         LET err == outcome # "ok"
             stdout == IF err THEN <<>> ELSE tagListing
             tag == LatestTagOf(err, stdout)
             parsed == parseVersion(tag)
         IN  /\ fetchErr' = err
             /\ execLog' = execLog \o
                    (IF outcome = "fetchFailed"
                     THEN <<Exec("git fetch --tags", <<>>, <<>>, FALSE)>>
                     ELSE <<Cmd("git fetch --tags", <<>>, <<>>),
                            Exec("git tag -l", <<>>, <<>>, outcome = "ok")>>)
             /\ latestTag' = tag
             /\ IF parsed.ok
                THEN /\ cur' = parsed.ver
                     /\ pc' = "bump"
                     /\ gnv' = gnv
                ELSE /\ cur' = cur
                     /\ pc' = "resolved"
                     /\ gnv' = Result(<<>>, "failed to parse version", tag)
    /\ UNCHANGED clientVars
    /\ UNCHANGED <<entry, tagListing, commitMsg, forceBump, version, message,
                   bumpType, ret, input, output>>

\* lines 96-108 reading the commit message first, so that its [skip] marker
\* wins over a forced bump
DetermineBumpSkipWins ==
    /\ pc = "bump"
    /\ \E logErr \in BOOLEAN :
         LET fromMsg == IF logErr THEN BumpMinor ELSE determineBumpType(commitMsg)
         IN  /\ bumpType' = IF forceBump # "" /\ fromMsg # BumpSkip
                             THEN forceBump ELSE fromMsg
             /\ execLog' = Append(execLog, Exec("git log", <<>>, <<>>, ~logErr))
    /\ pc' = "apply"
    /\ UNCHANGED clientVars
    /\ UNCHANGED <<entry, tagListing, commitMsg, forceBump, version, message, fetchErr,
                   latestTag, cur, gnv, ret, input, output>>

\* lines 96-108: the forced bump, or the one the commit message asks for
DetermineBump ==
    /\ pc = "bump"
    /\ \/ /\ forceBump # ""
          /\ bumpType' = forceBump
          /\ execLog' = execLog
       \/ /\ forceBump = ""
          /\ \E logErr \in BOOLEAN :
               /\ bumpType' = IF logErr THEN BumpMinor ELSE determineBumpType(commitMsg)
               /\ execLog' = Append(execLog, Exec("git log", <<>>, <<>>, ~logErr))
    /\ pc' = "apply"
    /\ UNCHANGED clientVars
    /\ UNCHANGED <<entry, tagListing, commitMsg, forceBump, version, message, fetchErr,
                   latestTag, cur, gnv, ret, input, output>>

\* lines 110-127 with the skip test left out
NextVersionNoSkip ==
    /\ pc = "apply"
    /\ cur' = ApplyBump(bumpType, cur)
    /\ gnv' = Result(FormatVersion(cur'), "nil", <<>>)
    /\ pc' = "resolved"
    /\ UNCHANGED clientVars
    /\ UNCHANGED <<entry, tagListing, commitMsg, forceBump, version, message, fetchErr,
                   latestTag, bumpType, ret, execLog, input, output>>

\* lines 110-127: skip, or increment and format
NextVersion ==
    /\ pc = "apply"
    /\ IF bumpType = BumpSkip
       THEN /\ gnv' = Result(<<>>, ErrVersionBumpSkipped, <<>>)
            /\ cur' = cur
       ELSE /\ cur' = ApplyBump(bumpType, cur)
            /\ gnv' = Result(FormatVersion(cur'), "nil", <<>>)
    /\ pc' = "resolved"
    /\ UNCHANGED clientVars
    /\ UNCHANGED <<entry, tagListing, commitMsg, forceBump, version, message, fetchErr,
                   latestTag, bumpType, ret, execLog, input, output>>

\* the caller invokes GetNextVersion directly
GetNextVersionCall ==
    /\ pc = "start"
    /\ entry = "GetNextVersion"
    /\ pc' = "fetch"
    /\ UNCHANGED clientVars
    /\ UNCHANGED <<entry, tagListing, commitMsg, forceBump, version, message, fetchErr,
                   latestTag, cur, bumpType, gnv, ret, execLog, input, output>>

GetNextVersionReturn ==
    /\ pc = "resolved"
    /\ entry = "GetNextVersion"
    /\ ret' = gnv
    /\ pc' = "done"
    /\ UNCHANGED clientVars
    /\ UNCHANGED <<entry, tagListing, commitMsg, forceBump, version, message, fetchErr,
                   latestTag, cur, bumpType, gnv, execLog, input, output>>

-----------------------------------------------------------------------------
(* TagAndPush *)

\* lines 157-159
DefaultMessage(msg, ver) == IF msg = <<>> THEN ReleasePrefix \o ver ELSE msg

\* lines 145-159 with a version given, a forced skip still honoured
TagAndPushGivenSkipHonoured ==
    /\ pc = "start"
    /\ entry = "TagAndPush"
    /\ version # <<>>
    /\ IF forceBump = BumpSkip
       THEN /\ ret' = Result(<<>>, "nil", <<>>)
            /\ pc' = "done"
            /\ message' = message
       ELSE /\ message' = DefaultMessage(message, version)
            /\ pc' = "tag"
            /\ ret' = ret
    /\ UNCHANGED clientVars
    /\ UNCHANGED <<entry, tagListing, commitMsg, forceBump, version, fetchErr,
                   latestTag, cur, bumpType, gnv, execLog, input, output>>

\* lines 145-159 with a version given: no resolution
TagAndPushGiven ==
    /\ pc = "start"
    /\ entry = "TagAndPush"
    /\ version # <<>>
    /\ message' = DefaultMessage(message, version)
    /\ pc' = "tag"
    /\ UNCHANGED clientVars
    /\ UNCHANGED <<entry, tagListing, commitMsg, forceBump, version, fetchErr,
                   latestTag, cur, bumpType, gnv, ret, execLog, input, output>>

\* lines 145-147 with no version given: call GetNextVersion
TagAndPushResolve ==
    /\ pc = "start"
    /\ entry = "TagAndPush"
    /\ version = <<>>
    /\ pc' = "fetch"
    /\ UNCHANGED clientVars
    /\ UNCHANGED <<entry, tagListing, commitMsg, forceBump, version, message, fetchErr,
                   latestTag, cur, bumpType, gnv, ret, execLog, input, output>>

\* lines 147-159: what TagAndPush does with the result of GetNextVersion
TagAndPushResolved ==
    /\ pc = "resolved"
    /\ entry = "TagAndPush"
    /\ IF gnv.err = ErrVersionBumpSkipped
       THEN /\ ret' = Result(<<>>, "nil", <<>>)
            /\ pc' = "done"
            /\ UNCHANGED <<version, message>>
       ELSE IF gnv.err # "nil"
       THEN /\ ret' = Result(<<>>, "failed to determine next version", gnv.text)
            /\ pc' = "done"
            /\ UNCHANGED <<version, message>>
       ELSE /\ version' = gnv.version
            /\ message' = DefaultMessage(message, gnv.version)
            /\ pc' = "tag"
            /\ ret' = ret
    /\ UNCHANGED clientVars
    /\ UNCHANGED <<entry, tagListing, commitMsg, forceBump, fetchErr,
                   latestTag, cur, bumpType, gnv, execLog, input, output>>

\* lines 162-169: git tag -a version -m message
CreateTag ==
    /\ pc = "tag"
    /\ \E ok \in BOOLEAN :
         /\ execLog' = Append(execLog, Exec("git tag -a", version, message, ok))
         /\ IF ok
            THEN pc' = "push" /\ ret' = ret
            ELSE pc' = "done" /\ ret' = Result(<<>>, "failed to create and push tag", <<>>)
    /\ UNCHANGED clientVars
    /\ UNCHANGED <<entry, tagListing, commitMsg, forceBump, version, message, fetchErr,
                   latestTag, cur, bumpType, gnv, input, output>>

\* lines 164-171 with the error of the pipeline not looked at
PushTagErrorIgnored ==
    /\ pc = "push"
    /\ \E ok \in BOOLEAN :
         /\ execLog' = Append(execLog, Exec("git push origin", version, <<>>, ok))
         /\ ret' = Result(version, "nil", <<>>)
    /\ pc' = "done"
    /\ UNCHANGED clientVars
    /\ UNCHANGED <<entry, tagListing, commitMsg, forceBump, version, message, fetchErr,
                   latestTag, cur, bumpType, gnv, input, output>>

\* lines 164-171: git push origin version, then the return
PushTag ==
    /\ pc = "push"
    /\ \E ok \in BOOLEAN :
         /\ execLog' = Append(execLog, Exec("git push origin", version, <<>>, ok))
         /\ IF ok
            THEN ret' = Result(version, "nil", <<>>)
            ELSE ret' = Result(<<>>, "failed to create and push tag", <<>>)
    /\ pc' = "done"
    /\ UNCHANGED clientVars
    /\ UNCHANGED <<entry, tagListing, commitMsg, forceBump, version, message, fetchErr,
                   latestTag, cur, bumpType, gnv, input, output>>

-----------------------------------------------------------------------------
(* The calls a caller can make *)

ForceBumps == {"", "skip", "patch", "minor", "major", "bogus"}

Init ==
    /\ pc = "start"
    /\ entry \in {"GetNextVersion", "TagAndPush"}
    /\ tagListing \in TagListings
    /\ commitMsg \in CommitMsgs
    /\ forceBump \in ForceBumps
    /\ version \in (IF entry = "TagAndPush" THEN Versions ELSE {<<>>})
    /\ message \in (IF entry = "TagAndPush" THEN Messages ELSE {<<>>})
    /\ fetchErr = FALSE
    /\ latestTag = <<>>
    /\ cur = NoVersion
    /\ bumpType = BumpMinor
    /\ gnv = Pending
    /\ ret = Pending
    /\ execLog = <<>>
    /\ input = <<>>
    /\ output = <<>>
    /\ ClientInit

Next ==
    \/ GetNextVersionCall
    \/ FetchTags
    \/ DetermineBump
    \/ NextVersion
    \/ GetNextVersionReturn
    \/ TagAndPushGiven
    \/ TagAndPushResolve
    \/ TagAndPushResolved
    \/ CreateTag
    \/ PushTag

Spec == Init /\ [][Next]_vars

-----------------------------------------------------------------------------
(* parseVersion and determineBumpType on their own *)

MaxVerLen == 6

MaxTokens == 3

VerAlphabet == {"v", "0", "7", ".", "-"}

StringsUpTo(alphabet, n) == UNION {[1..k -> alphabet] : k \in 0..n}

RECURSIVE Concat(_)
Concat(parts) == IF parts = <<>> THEN <<>> ELSE Head(parts) \o Concat(Tail(parts))

TokenMessages == {Concat(parts) : parts \in StringsUpTo(Tokens, MaxTokens)}

PureInit(inputs) ==
    /\ pc = "call"
    /\ input \in inputs
    /\ output = <<>>
    /\ entry = "pure"
    /\ tagListing = <<>>
    /\ commitMsg = <<>>
    /\ forceBump = ""
    /\ version = <<>>
    /\ message = <<>>
    /\ fetchErr = FALSE
    /\ latestTag = <<>>
    /\ cur = NoVersion
    /\ bumpType = BumpMinor
    /\ gnv = Pending
    /\ ret = Pending
    /\ execLog = <<>>
    /\ ClientInit

ParseInit == PureInit(StringsUpTo(VerAlphabet, MaxVerLen) \cup EdgeVersions)

ParseCall ==
    /\ pc = "call"
    /\ output' = parseVersion(input)
    /\ pc' = "returned"
    /\ UNCHANGED clientVars
    /\ UNCHANGED <<entry, tagListing, commitMsg, forceBump, version, message, fetchErr,
                   latestTag, cur, bumpType, gnv, ret, execLog, input>>

SpecParse == ParseInit /\ [][ParseCall]_vars

ClassifyInit == PureInit(TokenMessages)

ClassifyCall ==
    /\ pc = "call"
    /\ output' = determineBumpType(input)
    /\ pc' = "returned"
    /\ UNCHANGED clientVars
    /\ UNCHANGED <<entry, tagListing, commitMsg, forceBump, version, message, fetchErr,
                   latestTag, cur, bumpType, gnv, ret, execLog, input>>

SpecClassify == ClassifyInit /\ [][ClassifyCall]_vars

-----------------------------------------------------------------------------
(* GetClient: the cached secrets client, called from several goroutines *)

\* the Config values the callers New and RetrieveSecret pass
Configs == {"cfgA", "cfgB"}

\* the (client, error) pair a call returns
ClientResult(c, e) == [val |-> c, err |-> e]

\* a caller (New, RetrieveSecret) enters GetClient with its Config
GetClientCall(p) ==
    /\ cpc[p] = "idle"
    /\ calls < MaxCalls
    /\ \E cfg \in Configs : ccfg' = [ccfg EXCEPT ![p] = cfg]
    /\ calls' = calls + 1
    /\ cpc' = [cpc EXCEPT ![p] = "rlock"]
    /\ UNCHANGED <<clientInstance, readers, writer, clocal, nextId, authed, assigns, returns>>
    /\ UNCHANGED gitVars

\* clientMutex.RLock(): waits while a goroutine holds the write lock (sync.RWMutex
\* also holds it back while a Lock is pending, which only removes interleavings)
RLock(p) ==
    /\ cpc[p] = "rlock"
    /\ writer = 0
    /\ readers' = readers \cup {p}
    /\ cpc' = [cpc EXCEPT ![p] = "check"]
    /\ UNCHANGED <<clientInstance, writer, ccfg, clocal, nextId, authed, assigns, calls, returns>>
    /\ UNCHANGED gitVars

\* if clientInstance != nil, read under the read lock
CheckCached(p) ==
    /\ cpc[p] = "check"
    /\ cpc' = [cpc EXCEPT ![p] = IF clientInstance # NoClient THEN "hit" ELSE "miss"]
    /\ UNCHANGED <<clientInstance, readers, writer, ccfg, clocal, nextId, authed, assigns,
                   calls, returns>>
    /\ UNCHANGED gitVars

\* clientMutex.RUnlock() on either branch of the first check
RUnlock(p) ==
    /\ cpc[p] \in {"hit", "miss"}
    /\ readers' = readers \ {p}
    /\ cpc' = [cpc EXCEPT ![p] = IF cpc[p] = "hit" THEN "cached" ELSE "lock"]
    /\ UNCHANGED <<clientInstance, writer, ccfg, clocal, nextId, authed, assigns, calls, returns>>
    /\ UNCHANGED gitVars

\* return clientInstance, nil: the variable is read again, after RUnlock
ReturnCached(p) ==
    /\ cpc[p] = "cached"
    /\ returns' = returns \cup {ClientResult(clientInstance, FALSE)}
    /\ cpc' = [cpc EXCEPT ![p] = "idle"]
    /\ UNCHANGED <<clientInstance, readers, writer, ccfg, clocal, nextId, authed, assigns, calls>>
    /\ UNCHANGED gitVars

\* clientMutex.Lock(): waits while any goroutine holds the lock, read or write
Lock(p) ==
    /\ cpc[p] = "lock"
    /\ writer = 0
    /\ readers = {}
    /\ writer' = p
    /\ cpc' = [cpc EXCEPT ![p] = "recheck"]
    /\ UNCHANGED <<clientInstance, readers, ccfg, clocal, nextId, authed, assigns, calls, returns>>
    /\ UNCHANGED gitVars

\* a variant that goes on to construct a client whatever the cache holds
RecheckSkipped(p) ==
    /\ cpc[p] = "recheck"
    /\ cpc' = [cpc EXCEPT ![p] = "construct"]
    /\ UNCHANGED <<clientInstance, readers, writer, ccfg, clocal, nextId, authed, assigns,
                   calls, returns>>
    /\ UNCHANGED gitVars

\* the second check, under the write lock; its return runs the deferred Unlock
Recheck(p) ==
    /\ cpc[p] = "recheck"
    /\ IF clientInstance # NoClient
       THEN /\ returns' = returns \cup {ClientResult(clientInstance, FALSE)}
            /\ writer' = 0
            /\ cpc' = [cpc EXCEPT ![p] = "idle"]
       ELSE /\ cpc' = [cpc EXCEPT ![p] = "construct"]
            /\ UNCHANGED <<returns, writer>>
    /\ UNCHANGED <<clientInstance, readers, ccfg, clocal, nextId, authed, assigns, calls>>
    /\ UNCHANGED gitVars

\* client := infisical.NewInfisicalClient(ctx, ...): a new client, built from cfg
Construct(p) ==
    /\ cpc[p] = "construct"
    /\ clocal' = [clocal EXCEPT ![p] = [id |-> nextId, cfg |-> ccfg[p]]]
    /\ nextId' = nextId + 1
    /\ cpc' = [cpc EXCEPT ![p] = "login"]
    /\ UNCHANGED <<clientInstance, readers, writer, ccfg, authed, assigns, calls, returns>>
    /\ UNCHANGED gitVars

\* UniversalAuthLogin and the test of its error; the error return runs the deferred Unlock
Login(p) ==
    /\ cpc[p] = "login"
    /\ \E ok \in BOOLEAN :
          IF ok
          THEN /\ authed' = authed \cup {clocal[p].id}
               /\ cpc' = [cpc EXCEPT ![p] = "store"]
               /\ UNCHANGED <<returns, writer>>
          ELSE /\ returns' = returns \cup {ClientResult(NoClient, TRUE)}
               /\ writer' = 0
               /\ cpc' = [cpc EXCEPT ![p] = "idle"]
               /\ UNCHANGED authed
    /\ UNCHANGED <<clientInstance, readers, ccfg, clocal, nextId, assigns, calls>>
    /\ UNCHANGED gitVars

\* clientInstance = client; return clientInstance, nil; the deferred Unlock
Store(p) ==
    /\ cpc[p] = "store"
    /\ clientInstance' = clocal[p]
    /\ assigns' = assigns + 1
    /\ returns' = returns \cup {ClientResult(clientInstance', FALSE)}
    /\ writer' = 0
    /\ cpc' = [cpc EXCEPT ![p] = "idle"]
    /\ UNCHANGED <<readers, ccfg, clocal, nextId, authed, calls>>
    /\ UNCHANGED gitVars

GetClient(p) ==
    \/ RLock(p)
    \/ CheckCached(p)
    \/ RUnlock(p)
    \/ ReturnCached(p)
    \/ Lock(p)
    \/ Recheck(p)
    \/ Construct(p)
    \/ Login(p)
    \/ Store(p)

\* no goroutine runs the git-repo functions here
GetClientInit == PureInit({<<>>})

GetClientNext == \E p \in Procs : GetClientCall(p) \/ GetClient(p)

SpecClient == GetClientInit /\ [][GetClientNext]_vars

-----------------------------------------------------------------------------
(* What the claims speak of, stated without the operators above *)

\* a capital letter and the small letter of a marker that it is the capital of
CasePairs ==
    { <<"S","s">>, <<"K","k">>, <<"I","i">>, <<"P","p">>, <<"M","m">>, <<"A","a">>,
      <<"J","j">>, <<"O","o">>, <<"R","r">>, <<"N","n">>, <<"T","t">>, <<"C","c">>,
      <<"H","h">>, <<"U+212A","k">>, <<"U+0130","i">> }

SameLetter(a, b) == a = b \/ <<a, b>> \in CasePairs \/ <<b, a>> \in CasePairs

\* the marker stands in msg at position i, in any letter case
OccursAt(marker, msg, i) ==
    /\ i >= 1
    /\ i + Len(marker) - 1 <= Len(msg)
    /\ \A k \in 1..Len(marker) : SameLetter(msg[i + k - 1], marker[k])

Occurs(marker, msg) == \E i \in 1..Len(msg) : OccursAt(marker, msg, i)

HasUpperCase(msg) == \E i \in 1..Len(msg) : \E p \in CasePairs : msg[i] = p[1]

NoMarker(msg) ==
    /\ ~Occurs(MarkerSkip, msg)
    /\ ~Occurs(MarkerMajor, msg)
    /\ ~Occurs(MarkerMinor, msg)
    /\ ~Occurs(MarkerPatch, msg)

\* C1: determineBumpType returns the marker of highest priority, in the order
\* [skip] > [major] > [minor] > [patch], among those that occur anywhere in the
\* message in any letter case, wherever in the message they stand.
C1_MarkerPriority ==
    pc = "returned" =>
        /\ Occurs(MarkerSkip, input) => output = BumpSkip
        /\ (Occurs(MarkerMajor, input) /\ ~Occurs(MarkerSkip, input)) => output = BumpMajor
        /\ (/\ Occurs(MarkerMinor, input)
            /\ ~Occurs(MarkerSkip, input)
            /\ ~Occurs(MarkerMajor, input)) => output = BumpMinor
        /\ (/\ Occurs(MarkerPatch, input)
            /\ ~Occurs(MarkerSkip, input)
            /\ ~Occurs(MarkerMajor, input)
            /\ ~Occurs(MarkerMinor, input)) => output = BumpPatch

\* a message with [major] standing before [skip], not all in lower case, classified skip
C1_Witness ==
    /\ pc = "returned"
    /\ \E i, j \in 1..Len(input) :
         i < j /\ OccursAt(MarkerMajor, input, i) /\ OccursAt(MarkerSkip, input, j)
    /\ HasUpperCase(input)
    /\ output = BumpSkip

-----------------------------------------------------------------------------
(* Semantic versions as the claims state them: triples of natural numbers, *)
(* each a sequence of decimal digits without leading zeros                 *)

StripV(s) == IF Len(s) >= 1 /\ s[1] = "v" THEN SubSeq(s, 2, Len(s)) ELSE s

AllDigits(s, i, j) == \A k \in i..j : s[k] \in DigitChars

\* lengths a, b, c of three runs of digits, separated by dots, that s begins
\* with, the third run not followed by a digit
FirstRuns(s) ==
    {a \in 1..Len(s) : a + 1 <= Len(s) /\ AllDigits(s, 1, a) /\ s[a + 1] = "."}

SecondRuns(s, a) ==
    {b \in 1..Len(s) :
        a + b + 2 <= Len(s) /\ AllDigits(s, a + 2, a + b + 1) /\ s[a + b + 2] = "."}

ThirdRuns(s, a, b) ==
    {c \in 1..Len(s) :
        /\ a + b + c + 2 <= Len(s)
        /\ AllDigits(s, a + b + 3, a + b + c + 2)
        /\ (a + b + c + 2 = Len(s) \/ s[a + b + c + 3] \notin DigitChars)}

Splits(s) ==
    UNION {UNION {{<<a, b, c>> : c \in ThirdRuns(s, a, b)} : b \in SecondRuns(s, a)}
             : a \in FirstRuns(s)}

IsSemVer(tag) == Splits(StripV(tag)) # {}

\* the three numbers a well-formed tag begins with
TagVersion(tag) ==
    LET s == StripV(tag)
        t == CHOOSE x \in Splits(s) : TRUE
    IN  << MagOf(SubSeq(s, 1, t[1])),
           MagOf(SubSeq(s, t[1] + 2, t[1] + t[2] + 1)),
           MagOf(SubSeq(s, t[1] + t[2] + 3, t[1] + t[2] + t[3] + 2)) >>

Digits(m) == [i \in 1..Len(m) |-> DigitChar(m[i])]

\* v<major>.<minor>.<patch>
VStr(t) == <<"v">> \o Digits(t[1]) \o <<".">> \o Digits(t[2]) \o <<".">> \o Digits(t[3])

\* the number fits a Go int / is below the largest Go int
FitsInt(m) == ~MagLess(MaxInt64Mag, m)

BelowMaxInt(m) == MagLess(m, MaxInt64Mag)

BumpTypes == {BumpSkip, BumpPatch, BumpMinor, BumpMajor}

\* GetNextVersion has returned, to its caller or to TagAndPush
Resolved == pc = "resolved"

\* C2 as stated: with no forced bump and no marker in the commit message the
\* bump is minor and GetNextVersion returns (major, minor+1, 0) of the latest
\* tag; classification yields a bump type for every message.
C2_Original ==
    /\ forceBump = "" => bumpType \in BumpTypes
    /\ (Resolved /\ forceBump = "" /\ NoMarker(commitMsg) /\ IsSemVer(latestTag)) =>
          LET t == TagVersion(latestTag)
          IN  /\ bumpType = BumpMinor
              /\ gnv.err = "nil"
              /\ gnv.version = VStr(<<t[1], MagInc(t[2]), <<0>>>>)

\* C2 amended: the same, for a latest tag whose major is at most 2^63-1 and
\* whose minor is below 2^63-1 (the range in which the Go int holding them
\* neither saturates nor wraps).
C2_DefaultMinor ==
    /\ forceBump = "" => bumpType \in BumpTypes
    /\ (Resolved /\ forceBump = "" /\ NoMarker(commitMsg) /\ IsSemVer(latestTag)) =>
          LET t == TagVersion(latestTag)
          IN  /\ bumpType = BumpMinor
              /\ gnv.err = "nil"
              /\ (FitsInt(t[1]) /\ BelowMaxInt(t[2])) =>
                    gnv.version = VStr(<<t[1], MagInc(t[2]), <<0>>>>)

\* latest tag v1.2.3, a marker-free commit message, no forced bump: v1.3.0
C2_Witness ==
    /\ Resolved
    /\ forceBump = ""
    /\ commitMsg # <<>>
    /\ NoMarker(commitMsg)
    /\ latestTag = <<"v","1",".","2",".","3">>
    /\ gnv = Result(<<"v","1",".","3",".","0">>, "nil", <<>>)

\* the bump arithmetic on triples of natural numbers
BumpedComponent(bt, t) ==
    CASE bt = BumpMajor -> t[1] [] bt = BumpMinor -> t[2] [] bt = BumpPatch -> t[3]

Bumped(bt, t) ==
    CASE bt = BumpMajor -> <<MagInc(t[1]), <<0>>, <<0>>>>
      [] bt = BumpMinor -> <<t[1], MagInc(t[2]), <<0>>>>
      [] bt = BumpPatch -> <<t[1], t[2], MagInc(t[3])>>

Mags(v) == <<v[1].mag, v[2].mag, v[3].mag>>

NonNegative(v) == ~v[1].neg /\ ~v[2].neg /\ ~v[3].neg

\* the step of GetNextVersion that applies a major, minor or patch bump
BumpStep ==
    /\ pc = "apply"
    /\ pc' = "resolved"
    /\ bumpType \in {BumpMajor, BumpMinor, BumpPatch}

\* C3 as stated: for a current version (M, m, p) GetNextVersion returns
\* v(M+1).0.0 for major, vM.(m+1).0 for minor, vM.m.(p+1) for patch.
C3_Original ==
    [][BumpStep =>
         /\ NonNegative(cur)
         /\ gnv'.err = "nil"
         /\ gnv'.version = VStr(Bumped(bumpType, Mags(cur)))]_vars

\* C3 amended: the same, when the component to increment is below 2^63-1;
\* a component equal to 2^63-1 wraps to -2^63.
C3_BumpArithmetic ==
    [][BumpStep =>
         /\ NonNegative(cur)
         /\ gnv'.err = "nil"
         /\ BelowMaxInt(BumpedComponent(bumpType, Mags(cur))) =>
               gnv'.version = VStr(Bumped(bumpType, Mags(cur)))]_vars

\* the three bumps of v2.3.4 each reached: a minor bump gives v2.4.0
C3_Witness ==
    /\ Resolved
    /\ latestTag = <<"v","2",".","3",".","4">>
    /\ bumpType = BumpMinor
    /\ gnv = Result(<<"v","2",".","4",".","0">>, "nil", <<>>)

Skipped == Result(<<>>, ErrVersionBumpSkipped, <<>>)

Executed(c) == \E i \in 1..Len(execLog) : execLog[i].cmd = c

\* GetNextVersion has returned (in this or an earlier state)
Returned == gnv.err # "pending"

\* C4: when the effective bump type is skip, GetNextVersion returns the skipped
\* outcome and no version; a TagAndPush that gets this outcome never runs
\* git tag or git push and returns an empty version and no error.
C4_SkipPublishesNothing ==
    /\ (Returned /\ bumpType = BumpSkip) => gnv = Skipped
    /\ (Returned /\ IsSemVer(latestTag) /\ forceBump = BumpSkip) => gnv = Skipped
    /\ (entry = "TagAndPush" /\ gnv = Skipped) =>
          /\ ~Executed("git tag -a")
          /\ ~Executed("git push origin")
          /\ pc \notin {"tag", "push"}
          /\ pc = "done" => ret = Result(<<>>, "nil", <<>>)

\* TagAndPush returned after a [skip] marker in the commit message
C4_Witness ==
    /\ pc = "done"
    /\ entry = "TagAndPush"
    /\ forceBump = ""
    /\ Occurs(MarkerSkip, commitMsg)
    /\ bumpType = BumpSkip
    /\ gnv = Skipped
    /\ ret = Result(<<>>, "nil", <<>>)

\* what GetNextVersion returns for a latest tag and a forced bump
ForcedOutcome(tag, forced) ==
    IF ~IsSemVer(tag) THEN Result(<<>>, "failed to parse version", tag)
    ELSE IF forced = BumpSkip THEN Skipped
    ELSE Result(FormatVersion(ApplyBump(forced, parseVersion(tag).ver)), "nil", <<>>)

\* C5: a non-empty forceBump alone is the bump type: git log is never run and
\* the outcome is determined by the latest tag and forceBump, whatever the
\* commit message; with an empty forceBump the commit message is read.
C5_ForcedBumpAlone ==
    /\ forceBump # "" => ~Executed("git log")
    /\ (forceBump # "" /\ Returned) => gnv = ForcedOutcome(latestTag, forceBump)
    /\ (forceBump # "" /\ pc = "apply") => bumpType = forceBump
    /\ (forceBump = "" /\ pc = "apply") => Executed("git log")

\* a forced patch bump of v2.3.4 under a commit message that says [skip]
C5_Witness ==
    /\ Resolved
    /\ forceBump = BumpPatch
    /\ Occurs(MarkerSkip, commitMsg)
    /\ latestTag = <<"v","2",".","3",".","4">>
    /\ gnv = Result(<<"v","2",".","3",".","5">>, "nil", <<>>)

AllWhite(s) == \A i \in 1..Len(s) : s[i] \in WhiteSpace

\* C6: with an empty or white-space-only tag listing GetNextVersion takes the
\* current version to be 0.0.0 and raises no parse error; with no forced bump
\* and no marker in the commit message it returns v0.1.0.
C6_NoTags ==
    /\ (pc = "bump" /\ ~fetchErr /\ AllWhite(tagListing)) => cur = <<Zero, Zero, Zero>>
    /\ (Returned /\ ~fetchErr /\ AllWhite(tagListing)) =>
          /\ gnv.err \in {"nil", ErrVersionBumpSkipped}
          /\ (forceBump = "" /\ NoMarker(commitMsg)) =>
                gnv = Result(<<"v","0",".","1",".","0">>, "nil", <<>>)

\* a white-space-only listing resolved to v0.1.0
C6_Witness ==
    /\ Resolved
    /\ ~fetchErr
    /\ tagListing = <<" ", "\n">>
    /\ forceBump = ""
    /\ NoMarker(commitMsg)
    /\ gnv = Result(<<"v","0",".","1",".","0">>, "nil", <<>>)

\* a natural number as strconv.Atoi hands it back: at most 2^63-1
Clamp(m) == IF FitsInt(m) THEN m ELSE MaxInt64Mag

ClampAll(t) == <<Clamp(t[1]), Clamp(t[2]), Clamp(t[3])>>

\* C7 as stated: parseVersion succeeds exactly when the string, after one
\* optional leading v, begins with digits.digits.digits; it then returns
\* exactly those three integers, ignoring what follows; otherwise it fails
\* with an invalid-version-format error.
C7_Original ==
    pc = "returned" =>
        /\ output.ok <=> IsSemVer(input)
        /\ output.ok =>
              /\ output.err.kind = "nil"
              /\ NonNegative(output.ver)
              /\ Mags(output.ver) = TagVersion(input)
        /\ ~output.ok => output.err.kind = "InvalidVersionFormat"

\* C7 amended: the same, each of the three integers being the number its run
\* of digits denotes when that is at most 2^63-1, and 2^63-1 when it is larger.
C7_ParseVersion ==
    pc = "returned" =>
        /\ output.ok <=> IsSemVer(input)
        /\ output.ok =>
              /\ output.err.kind = "nil"
              /\ NonNegative(output.ver)
              /\ Mags(output.ver) = ClampAll(TagVersion(input))
        /\ ~output.ok => output.err.kind = "InvalidVersionFormat"

\* 1.2.3-rc1 parsed to (1, 2, 3)
C7_Witness ==
    /\ pc = "returned"
    /\ input = <<"1",".","2",".","3","-","r","c","1">>
    /\ output.ok
    /\ Mags(output.ver) = <<<<1>>, <<2>>, <<3>>>>

\* tag is the first line of the listing, white space around it set aside
IsFirstLine(tag, listing) ==
    /\ tag # <<>>
    /\ \A k \in 1..Len(tag) : tag[k] # "\n"
    /\ tag[1] \notin WhiteSpace
    /\ tag[Len(tag)] \notin WhiteSpace
    /\ \E i \in 1..Len(listing) :
         LET e == i + Len(tag) - 1
         IN  /\ \A k \in 1..(i - 1) : listing[k] \in WhiteSpace
             /\ e <= Len(listing)
             /\ SubSeq(listing, i, e) = tag
             /\ \A k \in (e + 1)..Len(listing) :
                   (\A j \in (e + 1)..k : listing[j] # "\n") => listing[k] \in WhiteSpace

\* C8: a latest tag that is not empty and does not parse makes GetNextVersion
\* return an error naming the tag and no version, whatever forceBump and the
\* commit message are; TagAndPush then returns an error and runs neither
\* git tag nor git push.
C8_UnparsableTag ==
    (Returned /\ ~fetchErr /\ latestTag # <<>> /\ ~IsSemVer(latestTag)) =>
        /\ IsFirstLine(latestTag, tagListing)
        /\ gnv = Result(<<>>, "failed to parse version", latestTag)
        /\ ~Executed("git tag -a")
        /\ ~Executed("git push origin")
        /\ pc \notin {"tag", "push"}
        /\ (pc = "done" /\ entry = "GetNextVersion") => ret = gnv
        /\ (pc = "done" /\ entry = "TagAndPush") =>
              ret = Result(<<>>, "failed to determine next version", latestTag)

\* TagAndPush returned an error for the latest tag abc under a forced skip
C8_Witness ==
    /\ pc = "done"
    /\ entry = "TagAndPush"
    /\ latestTag = <<"a","b","c">>
    /\ forceBump = BumpSkip
    /\ ret = Result(<<>>, "failed to determine next version", <<"a","b","c">>)

\* x < y on Go ints
SignedLess(x, y) ==
    \/ x.neg /\ ~y.neg
    \/ ~x.neg /\ ~y.neg /\ MagLess(x.mag, y.mag)
    \/ x.neg /\ y.neg /\ MagLess(y.mag, x.mag)

\* semantic-version ordering: major, then minor, then patch
VersionLess(a, b) ==
    \/ SignedLess(a[1], b[1])
    \/ a[1] = b[1] /\ SignedLess(a[2], b[2])
    \/ a[1] = b[1] /\ a[2] = b[2] /\ SignedLess(a[3], b[3])

AsInts(t) == [i \in 1..3 |-> [neg |-> FALSE, mag |-> t[i]]]

\* GetNextVersion returned a version after a patch, minor or major bump
BumpedOutcome ==
    /\ Resolved
    /\ gnv.err = "nil"
    /\ IsSemVer(latestTag)
    /\ bumpType \in {BumpPatch, BumpMinor, BumpMajor}

\* C9 as stated: the version returned after a patch, minor or major bump is
\* strictly greater than the version of the latest tag.
C9_Original ==
    BumpedOutcome => VersionLess(AsInts(TagVersion(latestTag)), cur)

\* C9 amended: the same, for a latest tag whose components are all at most
\* 2^63-1 and whose component to increment is below 2^63-1.
C9_Monotonic ==
    (/\ BumpedOutcome
     /\ \A i \in 1..3 : FitsInt(TagVersion(latestTag)[i])
     /\ BelowMaxInt(BumpedComponent(bumpType, TagVersion(latestTag)))) =>
        VersionLess(AsInts(TagVersion(latestTag)), cur)

\* v1.2.3 bumped to v1.2.4
C9_Witness ==
    /\ BumpedOutcome
    /\ bumpType = BumpPatch
    /\ latestTag = <<"v","1",".","2",".","3">>
    /\ gnv.version = <<"v","1",".","2",".","4">>

\* C10 as stated: parseVersion of the string GetNextVersion returns succeeds
\* and yields the triple that was formatted into it.
C10_Original ==
    (Resolved /\ gnv.err = "nil") =>
        /\ parseVersion(gnv.version).ok
        /\ parseVersion(gnv.version).ver = cur

\* C10 amended: the same, when no component of the triple wrapped below zero
\* (the incremented component was below 2^63-1).
C10_RoundTrip ==
    (Resolved /\ gnv.err = "nil" /\ NonNegative(cur)) =>
        /\ parseVersion(gnv.version).ok
        /\ parseVersion(gnv.version).ver = cur

\* v007.08.09 bumped to v7.9.0, which parses to (7, 9, 0)
C10_Witness ==
    /\ Resolved
    /\ gnv.err = "nil"
    /\ latestTag = <<"v","0","0","7",".","0","8",".","0","9">>
    /\ gnv.version = <<"v","7",".","9",".","0">>
    /\ Mags(parseVersion(gnv.version).ver) = <<<<7>>, <<9>>, <<0>>>>

-----------------------------------------------------------------------------
(* Publication *)

Ran(c, ok) == {i \in 1..Len(execLog) : execLog[i].cmd = c /\ execLog[i].ok = ok}

PublishError == Result(<<>>, "failed to create and push tag", <<>>)

\* C11: git tag runs before git push; TagAndPush returns a non-empty version
\* and no error only if both succeeded, and an error with an empty version if
\* either failed.
C11_AllOrNothing ==
    /\ \A i \in 1..Len(execLog) :
         execLog[i].cmd = "git push origin" =>
            \E j \in 1..(i - 1) :
               /\ execLog[j].cmd = "git tag -a"
               /\ execLog[j].ok
               /\ execLog[j].arg = execLog[i].arg
    /\ (pc = "done" /\ entry = "TagAndPush") =>
          /\ (ret.err = "nil" /\ ret.version # <<>>) =>
                /\ \E j \in Ran("git tag -a", TRUE) : execLog[j].arg = ret.version
                /\ \E i \in Ran("git push origin", TRUE) : execLog[i].arg = ret.version
          /\ (Ran("git tag -a", FALSE) # {} \/ Ran("git push origin", FALSE) # {}) =>
                ret = PublishError
          /\ ret.err # "nil" => ret.version = <<>>

\* the tag was created, the push failed, and TagAndPush returned the error
C11_Witness ==
    /\ pc = "done"
    /\ entry = "TagAndPush"
    /\ Ran("git tag -a", TRUE) # {}
    /\ Ran("git push origin", FALSE) # {}
    /\ ret = PublishError

\* C12: with a non-empty version given, TagAndPush resolves nothing: no tag
\* fetch or listing, no git log, forceBump without effect (a forced skip does
\* not prevent tagging), and the tag created, pushed and returned is the given
\* version.
C12_ExplicitVersion ==
    \A v \in Versions \ {<<>>} :
        (pc = "start" /\ entry = "TagAndPush" /\ version = v) =>
            [](/\ ~Executed("git fetch --tags")
               /\ ~Executed("git tag -l")
               /\ ~Executed("git log")
               /\ gnv = Pending
               /\ version = v
               /\ pc \in {"start", "tag", "push", "done"}
               /\ \A i \in 1..Len(execLog) : execLog[i].arg = v
               /\ pc = "done" =>
                     /\ Ran("git tag -a", TRUE) \cup Ran("git tag -a", FALSE) # {}
                     /\ ret \in {Result(v, "nil", <<>>), PublishError}
                     /\ Ran("git push origin", TRUE) # {} => ret = Result(v, "nil", <<>>))

\* version v9.9.9 given together with a forced skip: v9.9.9 tagged, pushed,
\* returned
C12_Witness ==
    /\ pc = "done"
    /\ entry = "TagAndPush"
    /\ forceBump = BumpSkip
    /\ gnv = Pending
    /\ \E j \in Ran("git tag -a", TRUE) : execLog[j].arg = <<"v","9",".","9",".","9">>
    /\ \E i \in Ran("git push origin", TRUE) : execLog[i].arg = <<"v","9",".","9",".","9">>
    /\ ret = Result(<<"v","9",".","9",".","9">>, "nil", <<>>)

\* a decimal numeral without a sign and without leading zeros
IsNumeral(s) == s # <<>> /\ AllDigits(s, 1, Len(s)) /\ (Len(s) > 1 => s[1] # "0")

\* the string is v<major>.<minor>.<patch> and nothing else
IsExactSemVer(s) ==
    /\ s # <<>>
    /\ s[1] = "v"
    /\ \E i, j \in 2..Len(s) :
         /\ i < j
         /\ s[i] = "."
         /\ s[j] = "."
         /\ IsNumeral(SubSeq(s, 2, i - 1))
         /\ IsNumeral(SubSeq(s, i + 1, j - 1))
         /\ IsNumeral(SubSeq(s, j + 1, Len(s)))

Published == {i \in 1..Len(execLog) : execLog[i].cmd \in {"git tag -a", "git push origin"}}

\* C13 as stated: every tag name handed to git tag and git push has the exact
\* form v<major>.<minor>.<patch> with non-negative decimal integers.
C13_Original ==
    \A i \in Published : IsExactSemVer(execLog[i].arg)

\* C13 amended: a tag name handed to git tag and git push is either the
\* version the caller gave, as given, or the version GetNextVersion returned,
\* which has the exact form v<major>.<minor>.<patch> with non-negative
\* decimal integers unless the incremented component wrapped below zero;
\* when nothing is tagged TagAndPush returns an empty version.
C13_TagNameForm ==
    /\ \A i \in Published :
         \/ gnv = Pending /\ execLog[i].arg = version
         \/ /\ gnv.err = "nil"
            /\ execLog[i].arg = gnv.version
            /\ NonNegative(cur) => IsExactSemVer(execLog[i].arg)
    /\ (pc = "done" /\ entry = "TagAndPush" /\ Published = {}) => ret.version = <<>>

\* the resolved version v1.3.0 was handed to git tag and git push
C13_Witness ==
    /\ pc = "done"
    /\ entry = "TagAndPush"
    /\ gnv = Result(<<"v","1",".","3",".","0">>, "nil", <<>>)
    /\ \E j \in Ran("git tag -a", TRUE) : execLog[j].arg = gnv.version
    /\ \E i \in Ran("git push origin", TRUE) : execLog[i].arg = gnv.version

-----------------------------------------------------------------------------
(* Errors *)

FailedCommands == {i \in 1..Len(execLog) : ~execLog[i].ok}

\* C14: every error that arises while resolving or publishing is returned to
\* the caller: once a git command has failed, or the latest tag did not
\* parse, the call does not return success; only an empty tag listing is
\* silently replaced by 0.0.0.
C14_ErrorsReturned ==
    pc = "done" =>
        /\ FailedCommands # {} => ret.err # "nil"
        /\ gnv.err = "failed to parse version" => ret.err # "nil"

\* a failed git fetch --tags or git tag -l after which GetNextVersion returned
\* a version and no error
C14_FetchErrorSwallowed ==
    /\ pc = "done"
    /\ entry = "GetNextVersion"
    /\ fetchErr
    /\ ret.err = "nil"
    /\ ret.version # <<>>

\* C15: a forceBump that is not empty and not one of skip, patch, minor, major
\* increments nothing: GetNextVersion returns, as a success, the current
\* version formatted as v<M>.<m>.<p>, and TagAndPush goes on to tag and push
\* that version.
C15_UnknownForceBump ==
    (Returned /\ forceBump \notin (BumpTypes \cup {""}) /\ IsSemVer(latestTag)) =>
        /\ bumpType = forceBump
        /\ NonNegative(cur)
        /\ Mags(cur) = ClampAll(TagVersion(latestTag))
        /\ gnv = Result(VStr(Mags(cur)), "nil", <<>>)
        /\ (entry = "TagAndPush" /\ pc # "resolved") =>
              /\ version = gnv.version
              /\ pc \in {"tag", "push", "done"}
              /\ \A i \in Published : execLog[i].arg = gnv.version
              /\ pc \in {"push", "done"} => Ran("git tag -a", TRUE) \cup Ran("git tag -a", FALSE) # {}
              /\ pc = "done" => ret \in {Result(gnv.version, "nil", <<>>), PublishError}
              /\ (pc = "done" /\ Ran("git push origin", TRUE) # {}) =>
                    ret = Result(gnv.version, "nil", <<>>)

\* forceBump bogus on latest tag v2.3.4: v2.3.4 tagged, pushed and returned
C15_Witness ==
    /\ pc = "done"
    /\ entry = "TagAndPush"
    /\ forceBump = "bogus"
    /\ latestTag = <<"v","2",".","3",".","4">>
    /\ \E j \in Ran("git tag -a", TRUE) : execLog[j].arg = latestTag
    /\ \E i \in Ran("git push origin", TRUE) : execLog[i].arg = latestTag
    /\ ret = Result(<<"v","2",".","3",".","4">>, "nil", <<>>)


-----------------------------------------------------------------------------
(* C16 *)

\* the goroutines between the second check and the assignment
Constructing == {p \in Procs : cpc[p] \in {"construct", "login", "store"}}

\* the clients the calls returned without an error
ReturnedClients == {r.val : r \in {x \in returns : ~x.err}}

\* a call failed to authenticate
AuthFailed == ClientResult(NoClient, TRUE) \in returns

\* C16: under every interleaving of the calls of GetClient, clientInstance is
\* assigned at most once and only with a client whose login succeeded; at most
\* one goroutine at a time constructs or authenticates a client, and it holds
\* the write lock with the cache still empty; every call that returns without
\* an error returns the stored instance, whatever Config it was given; a call
\* that returns an error returns no client and leaves the cache as it was, so
\* the cache stays empty until some login succeeds.
C16_SingleClient ==
    /\ assigns <= 1
    /\ (assigns = 0) <=> (clientInstance = NoClient)
    /\ clientInstance # NoClient => clientInstance.id \in authed
    /\ Cardinality(Constructing) <= 1
    /\ \A p \in Constructing : writer = p /\ readers = {} /\ clientInstance = NoClient
    /\ \A r \in returns : IF r.err THEN r.val = NoClient
                                   ELSE r.val # NoClient /\ r.val = clientInstance
    /\ Cardinality(ReturnedClients) <= 1
    /\ authed = {} => clientInstance = NoClient

\* a login failed, a later call authenticated again and stored its client, and
\* a call given the other Config was handed that same client from the cache
C16_Witness ==
    /\ AuthFailed
    /\ clientInstance # NoClient
    /\ clientInstance.id > 1
    /\ \E p \in Procs :
          /\ cpc[p] = "idle"
          /\ ccfg[p] # ""
          /\ ccfg[p] # clientInstance.cfg
          /\ \A q \in Procs : cpc[q] = "idle"
    /\ calls = MaxCalls

====
